---- MODULE Spec2Model ----
(***************************************************************************)
(* Session-scoped element store with change fan-out (excalidraw-mcp).      *)
(*                                                                         *)
(* The canvas server (src/src/server.ts) keeps one element Map per         *)
(* session (sessions.ts), mutates it from the REST handlers and publishes  *)
(* every change to the WebSocket clients of the session.  The browser      *)
(* client (src/frontend/src/App.tsx) applies the received events to its    *)
(* scene.                                                                  *)
(*                                                                         *)
(* Encoding of JavaScript values:                                          *)
(*   - a string-valued field that is absent (undefined) is NoId / NoType;  *)
(*   - a number-valued field that is absent is Absent, one that holds a    *)
(*     non-number (for instance the string "abc") is NotNumber;            *)
(*   - a Map<string, ServerElement> is a sequence of [key, el] entries in  *)
(*     insertion order, without two entries of the same key.               *)
(***************************************************************************)
EXTENDS Integers, Sequences, FiniteSets, TLC

VARIABLES
    sessions,        \* sessions.ts `sessions`: session id -> session, NoSession when unmapped
    sessionClients,  \* server.ts `sessionClients`: function from the mapped session ids to sets of sockets
    nextId,          \* number of ids the identifier generator has issued
    ws,              \* per observer: its socket (readyState, sessionId, session, inbox, log) and its App (api, scene)
    resp,            \* the response of the last request
    published,       \* the events handed to broadcastToSession by the last request
    ops,             \* number of requests, connections, sweeps and finish_diagram calls handled
    now,             \* the clock that Date.now() and new Date() read
    exports,         \* the sessions whose export request awaits exportSessionToImage
    currentSessionId,  \* mcp-handler.ts `currentSessionId`, NoId when null
    calls,           \* per tool caller: the session it started and the request its invocation awaits
    toolResult,      \* the result of the last tool invocation that returned
    invocations,     \* number of tool invocations begun
    cleanedElements,    \* App.tsx: the elements of the last initial_elements message, cleaned
    validatedElements,  \* App.tsx: what validateAndFixBindings made of them
    convertedElements,  \* App.tsx: the elements last given to convertToExcalidrawElements and
                        \* updateScene, and the paths that have installed elements so far
    sseTransports,      \* server.ts `sseTransports`: the legacy SSE connections, in the order
                        \* of their insertion into the Map
    sseDelivery         \* the last POST /sse/message: its sender and the transport that
                        \* handled it

vars == <<sessions, sessionClients, nextId, ws, resp, published, ops, now, exports,
          currentSessionId, calls, toolResult, invocations, cleanedElements,
          validatedElements, convertedElements, sseTransports, sseDelivery>>

\* the state of the tool surface
mcp == <<currentSessionId, calls, toolResult, invocations>>

\* the binding repair of the editor
editor == <<cleanedElements, validatedElements, convertedElements>>

\* the legacy SSE endpoint
sse == <<sseTransports, sseDelivery>>

----------------------------------------------------------------------------
(* Bounds *)

MaxOps == 3          \* requests and connections of one behaviour
MaxBatch == 2        \* longest element list of a batch or sync request
MaxTime == 3         \* last reading of the clock
MaxCalls == 3
MaxElems == 2        \* tool invocations of one behaviour

----------------------------------------------------------------------------
(* Values *)

SessionIds == {"s1", "s2"}
Observers == {"o1", "o2"}
Callers == {"c1", "c2"}

NoId == "<undefined>"
NoType == "<undefined>"
NoTitle == "<undefined>"
NoUrl == "<undefined>"
Absent == -1
NotNumber == -2

\* sessions.get(id) of an id that is not mapped
NoSession ==
    [exists |-> FALSE, elements |-> <<>>, createdAt |-> Absent, lastActivity |-> Absent,
     title |-> NoTitle, imageUrl |-> NoUrl, isFinalized |-> FALSE]

\* the ids a caller writes into a payload: the empty string and a name
ExplicitIds == {"", "a"}

IsNumber(v) == v >= 0

\* a JavaScript string is truthy unless it is absent or empty
Truthy(id) == id \notin {NoId, ""}

\* types.ts EXCALIDRAW_ELEMENT_TYPES
EXCALIDRAW_ELEMENT_TYPES ==
    {"rectangle", "ellipse", "diamond", "arrow", "line", "text",
     "freedraw", "image", "frame", "embeddable"}

\* types.ts generateId: the n-th id issued; never one issued before
generateId(n) == "g" \o ToString(n)

IssuedIds == {generateId(n) : n \in 1..nextId}

----------------------------------------------------------------------------
(* Map<string, ServerElement> *)

Keys(m) == {m[i].key : i \in 1..Len(m)}

MapHas(m, k) == k \in Keys(m)

IndexOf(m, k) == CHOOSE i \in 1..Len(m) : m[i].key = k

MapGet(m, k) == m[IndexOf(m, k)].el

\* Map.prototype.set: replaces the value in place, or appends a new entry
MapSet(m, k, e) ==
    IF MapHas(m, k)
    THEN [m EXCEPT ![IndexOf(m, k)] = [key |-> k, el |-> e]]
    ELSE Append(m, [key |-> k, el |-> e])

\* Map.prototype.delete
MapDelete(m, k) ==
    IF MapHas(m, k)
    THEN LET i == IndexOf(m, k)
         IN [j \in 1..(Len(m) - 1) |-> IF j < i THEN m[j] ELSE m[j + 1]]
    ELSE m

\* MapValues, had the last entry been left out
MapValuesWithoutLast(m) == [i \in 1..(Len(m) - 1) |-> m[i].el]

\* Array.from(map.values())
MapValues(m) == [i \in 1..Len(m) |-> m[i].el]

----------------------------------------------------------------------------
(* Elements, payloads and messages *)

NoElement == [id |-> NoId, type |-> NoType, x |-> Absent, y |-> Absent, version |-> Absent]

\* a JSON null in an element list
NullElement == [id |-> "<null>", type |-> NoType, x |-> Absent, y |-> Absent, version |-> Absent]

\* request bodies of the single create: the valid ones (no id, an explicit
\* id) and one for each way validation fails
ItemInputs ==
    [id : {NoId} \cup ExplicitIds, type : {"rectangle"}, x : {1}, y : {0}]
    \cup {[id |-> NoId, type |-> "bogus", x |-> 1, y |-> 0],
          [id |-> NoId, type |-> "rectangle", x |-> NotNumber, y |-> 0],
          [id |-> NoId, type |-> "rectangle", x |-> 1, y |-> Absent]}

\* items of a batch create
BatchInputs ==
    {[id |-> NoId, type |-> "rectangle", x |-> 1, y |-> 0],
     [id |-> "a", type |-> "rectangle", x |-> 1, y |-> 0],
     [id |-> NoId, type |-> "bogus", x |-> 1, y |-> 0]}

\* request bodies of the update; version is a key the schema does not know
UpdateInputs ==
    {[id |-> NoId, type |-> NoType, x |-> 2, y |-> Absent, version |-> Absent],
     [id |-> NoId, type |-> NoType, x |-> Absent, y |-> Absent, version |-> 7],
     [id |-> "a", type |-> NoType, x |-> Absent, y |-> Absent, version |-> Absent],
     [id |-> NoId, type |-> NoType, x |-> NotNumber, y |-> Absent, version |-> Absent]}

\* the update that moves an element
UpdateInputs_x2 == CHOOSE b \in UpdateInputs : b.x = 2

\* elements of a sync request: scene elements of the rendering client, or null
SyncInputs ==
    {[id |-> NoId, type |-> "rectangle", x |-> 1, y |-> 0, version |-> Absent],
     [id |-> "a", type |-> "rectangle", x |-> 2, y |-> 0, version |-> 5],
     NullElement}

\* the sequences over S of length at most n
SeqUpTo(S, n) == UNION {[1..k -> S] : k \in 0..n}

\* the element ids a caller can put into a request path
PathIds == {"a"} \cup IssuedIds

NoMessage ==
    [type |-> "none", sessionId |-> NoId, element |-> NoElement, elements |-> <<>>,
     elementId |-> NoId, count |-> Absent]

\* a response, with the request it answers: op and sessionId name the route,
\* given holds the usable ids the elements of the request body carried,
\* input the element list of a batch or full-resync request, elements the element
\* records of the response body
NoResponse ==
    [op |-> "none", sessionId |-> NoId, status |-> 0, id |-> NoId, count |-> Absent,
     given |-> {}, input |-> <<>>, elements |-> <<>>]

Response(op, sid, status) == [NoResponse EXCEPT !.op = op, !.sessionId = sid, !.status = status]

MutationOps == {"create", "update", "delete", "batch", "sync"}

\* the request a tool invocation awaits: the fetch of callInternalApi, or
\* the export of finish_diagram; sessionId is the session id the request
\* names, elements the elements of its body, id the element id of its path
NoCall == [tool |-> "none", sessionId |-> NoId, id |-> NoId, elements |-> <<>>,
           bound |-> FALSE]

\* the usable ids carried by a list of request elements
GivenIds(elements) == {elements[i].id : i \in 1..Len(elements)} \ {NoId, "", "<null>"}

----------------------------------------------------------------------------
(* Schema validation (zod) *)

\* CreateElementSchema.parse succeeds: type in the enumeration, x and y numbers
CreateElementSchemaOk(body) ==
    /\ body.type \in EXCALIDRAW_ELEMENT_TYPES
    /\ IsNumber(body.x)
    /\ IsNumber(body.y)

\* UpdateElementSchema.parse succeeds: every field optional, but of its type when present
UpdateElementSchemaOk(body) ==
    /\ body.type \in EXCALIDRAW_ELEMENT_TYPES \cup {NoType}
    /\ body.x # NotNumber
    /\ body.y # NotNumber


\* { id, ...params, version: 1 }: the spread of params writes params.id over id when present
NewElement(id, params) ==
    [id |-> IF params.id # NoId THEN params.id ELSE id,
     type |-> params.type, x |-> params.x, y |-> params.y, version |-> 1]

\* UpdatedElement, had the body been spread last and its version key kept
UpdatedElementBodyLast(existing, id, body) ==
    [id |-> IF body.id # NoId THEN body.id ELSE id,
     type |-> IF body.type # NoType THEN body.type ELSE existing.type,
     x |-> IF body.x # Absent THEN body.x ELSE existing.x,
     y |-> IF body.y # Absent THEN body.y ELSE existing.y,
     version |-> IF body.version # Absent THEN body.version
                 ELSE (IF existing.version > 0 THEN existing.version ELSE 0) + 1]

\* { ...existingElement, ...updates, version: (existingElement.version || 0) + 1 };
\* updates is the parsed { id, ...req.body }: unknown keys (version) are stripped,
\* and an id in the body overrides the id of the path
UpdatedElement(existing, id, body) ==
    [id |-> IF body.id # NoId THEN body.id ELSE id,
     type |-> IF body.type # NoType THEN body.type ELSE existing.type,
     x |-> IF body.x # Absent THEN body.x ELSE existing.x,
     y |-> IF body.y # Absent THEN body.y ELSE existing.y,
     version |-> (IF existing.version > 0 THEN existing.version ELSE 0) + 1]

\* ProcessedElement, had the version of the incoming element been kept
ProcessedElementKeepsVersion(element, elementId) ==
    [id |-> elementId, type |-> element.type, x |-> element.x, y |-> element.y,
     version |-> IF element.version # Absent THEN element.version ELSE 1]

\* { ...element, id: elementId, source: 'frontend_sync', version: 1 }
ProcessedElement(element, elementId) ==
    [id |-> elementId, type |-> element.type, x |-> element.x, y |-> element.y, version |-> 1]

----------------------------------------------------------------------------
(* Session registry (sessions.ts) *)

\* getOrCreateSession, had it made a new session whether or not the id is mapped
getOrCreateSessionResets(sid) ==
    [sessions EXCEPT ![sid] =
        [NoSession EXCEPT !.exists = TRUE, !.createdAt = now, !.lastActivity = now]]

\* createSession(id): the session it returns, which is the session the id
\* is mapped to when there is one and a new, empty session otherwise
createSession(sid) ==
    IF sessions[sid].exists THEN sessions[sid]
    ELSE [NoSession EXCEPT !.exists = TRUE, !.createdAt = now, !.lastActivity = now]

\* getSession: the session it returns, its lastActivity set to the clock;
\* NoSession (undefined) when the id is not mapped
getSession(sid) ==
    IF sessions[sid].exists THEN [sessions[sid] EXCEPT !.lastActivity = now]
    ELSE NoSession

\* getOrCreateSession: the registry after the call
getOrCreateSession(sid) ==
    [sessions EXCEPT ![sid] = IF sessions[sid].exists THEN getSession(sid)
                              ELSE createSession(sid)]

\* SESSION_EXPIRY_MS (24 hours), in units of 12 hours: the clock counts them
SESSION_EXPIRY_MS == 2

\* the clock advances by one unit
Tick ==
    /\ now < MaxTime
    /\ now' = now + 1
    /\ UNCHANGED <<sessions, sessionClients, nextId, ws, resp, published, ops, exports>>

\* cleanupExpiredSessions, had it deleted the sessions whose age has reached the expiry time
ExpiredAtExpiry(session) == session.exists /\ now - session.lastActivity >= SESSION_EXPIRY_MS

\* cleanupExpiredSessions: the test that deletes a session
Expired(session) == session.exists /\ now - session.lastActivity > SESSION_EXPIRY_MS

\* cleanupExpiredSessions, the callback of the hourly timer; resp keeps the
\* number it returns
cleanupExpiredSessions ==
    LET cleanedCount == Cardinality({sid \in SessionIds : Expired(sessions[sid])})
    IN  /\ ops < MaxOps
        /\ ops' = ops + 1
        /\ resp' = [NoResponse EXCEPT !.op = "sweep", !.count = cleanedCount]
        /\ published' = <<>>
        /\ sessions' = [sid \in SessionIds |->
                          IF Expired(sessions[sid]) THEN NoSession ELSE sessions[sid]]
        /\ UNCHANGED <<sessionClients, nextId, ws, now, exports>>

----------------------------------------------------------------------------
(* Broadcast bus *)

\* ws.send, had the message overtaken those sent before it
SendOvertakes(w, msg) ==
    [w EXCEPT !.inbox = <<msg>> \o @, !.log = <<msg.type>> \o @]

\* ws.send: the message follows those sent before it on the socket
Send(w, msg) ==
    [w EXCEPT !.inbox = Append(@, msg), !.log = Append(@, msg.type)]

\* broadcastToSession, had it sent to the open sockets of every session
broadcastToAll(sid, msg) ==
    [o \in Observers |->
        IF ws[o].readyState = "OPEN" THEN Send(ws[o], msg) ELSE ws[o]]

\* broadcastToSession, had it sent to every client of the session whatever
\* the state of its socket
broadcastWithoutReadyState(sid, msg) ==
    [o \in Observers |->
        IF sid \in DOMAIN sessionClients /\ o \in sessionClients[sid]
        THEN Send(ws[o], msg)
        ELSE ws[o]]

\* broadcastToSession: every client of the session whose socket is OPEN is sent the message
broadcastToSession(sid, msg) ==
    [o \in Observers |->
        IF /\ sid \in DOMAIN sessionClients
           /\ o \in sessionClients[sid]
           /\ ws[o].readyState = "OPEN"
        THEN Send(ws[o], msg)
        ELSE ws[o]]

----------------------------------------------------------------------------
(* Initial state: no session, no client, no id issued *)

\* a caller that has invoked no tool
NoCaller == [own |-> NoId, pending |-> NoCall]

\* the result of a tool invocation, with the invocation it answers: valid
\* tells whether its arguments were accepted, bound whether a session was
\* current when it began, exported what exportSessionToImage answered;
\* content is "text" for a result without isError and "isError" for one with;
\* link is the session whose canvas link the text of finish_diagram gives
NoResult == [caller |-> "none", tool |-> "none", valid |-> FALSE, bound |-> FALSE,
             exported |-> "none", content |-> "none", link |-> NoId]

NoSocket == [readyState |-> "NONE", sessionId |-> NoId, session |-> Absent, api |-> FALSE,
             inbox |-> <<>>, log |-> <<>>, scene |-> <<>>]

\* no message has been posted to /sse/message
NoDelivery == [sender |-> "none", open |-> FALSE, transport |-> "none", status |-> 0]

\* no elements have been handed to the scene
NoInstall == [via |-> {}, elements |-> <<>>]

\* the server after construction: no session, no socket, no tool call
InitServer ==
    /\ sessions = [sid \in SessionIds |-> NoSession]
    /\ sessionClients = [sid \in {} |-> {}]
    /\ nextId = 0
    /\ ws = [o \in Observers |-> NoSocket]
    /\ resp = NoResponse
    /\ published = <<>>
    /\ ops = 0
    /\ now = 0
    /\ exports = {}
    /\ currentSessionId = NoId
    /\ calls = [c \in Callers |-> NoCaller]
    /\ toolResult = NoResult
    /\ invocations = 0
    /\ sseTransports = <<>>
    /\ sseDelivery = NoDelivery

\* the state after construction
Init ==
    /\ InitServer
    /\ cleanedElements = <<>>
    /\ validatedElements = <<>>
    /\ convertedElements = NoInstall

\* what every request handler does besides its own work
Handled(r, events) ==
    /\ ops < MaxOps
    /\ ops' = ops + 1
    /\ resp' = r
    /\ published' = events
    /\ UNCHANGED now

----------------------------------------------------------------------------
(* GET /api/sessions/:sessionId/elements *)

GetElements(sid) ==
    LET session == getSession(sid)
    IN  IF ~session.exists
        THEN /\ Handled(Response("get", sid, 404), <<>>)
             /\ UNCHANGED <<sessions, sessionClients, nextId, ws, exports>>
        ELSE /\ Handled([Response("get", sid, 200) EXCEPT
                           !.elements = MapValues(session.elements),
                           !.count = Len(MapValues(session.elements))],
                        <<>>)
             /\ sessions' = [sessions EXCEPT ![sid] = session]
             /\ UNCHANGED <<sessionClients, nextId, ws, exports>>

----------------------------------------------------------------------------
(* POST /api/sessions/:sessionId/elements *)

CreateElement(sid, body) ==
    LET registry == getOrCreateSession(sid)
        session == registry[sid]
    IN  IF ~CreateElementSchemaOk(body)
        THEN \* parse throws: 400; the session has been created
             /\ Handled([Response("create", sid, 400) EXCEPT !.given = GivenIds(<<body>>)],
                        <<>>)
             /\ sessions' = registry
             /\ UNCHANGED <<sessionClients, nextId, ws, exports>>
        ELSE LET generated == ~Truthy(body.id)
                 id == IF generated THEN generateId(nextId + 1) ELSE body.id
                 element == NewElement(id, body)
                 message == [NoMessage EXCEPT !.type = "element_created",
                                              !.sessionId = sid, !.element = element]
             IN  /\ Handled([Response("create", sid, 200) EXCEPT
                               !.id = id, !.given = GivenIds(<<body>>),
                               !.elements = <<element>>],
                            <<message>>)
                 /\ sessions' = [registry EXCEPT
                                   ![sid].elements = MapSet(session.elements, id, element)]
                 /\ nextId' = IF generated THEN nextId + 1 ELSE nextId
                 /\ ws' = broadcastToSession(sid, message)
                 /\ UNCHANGED <<sessionClients, exports>>

----------------------------------------------------------------------------
(* PUT /api/sessions/:sessionId/elements/:id *)

UpdateElement(sid, id, body) ==
    LET session == getSession(sid)
    IN  IF ~session.exists
        THEN /\ Handled(Response("update", sid, 404), <<>>)
             /\ UNCHANGED <<sessions, sessionClients, nextId, ws, exports>>
        ELSE IF ~UpdateElementSchemaOk(body)
        THEN /\ Handled(Response("update", sid, 400), <<>>)
             /\ sessions' = [sessions EXCEPT ![sid] = session]
             /\ UNCHANGED <<sessionClients, nextId, ws, exports>>
        ELSE IF ~MapHas(session.elements, id)
        THEN /\ Handled(Response("update", sid, 404), <<>>)
             /\ sessions' = [sessions EXCEPT ![sid] = session]
             /\ UNCHANGED <<sessionClients, nextId, ws, exports>>
        ELSE LET updatedElement == UpdatedElement(MapGet(session.elements, id), id, body)
                 message == [NoMessage EXCEPT !.type = "element_updated",
                                              !.sessionId = sid, !.element = updatedElement]
             IN  /\ Handled([Response("update", sid, 200) EXCEPT
                               !.id = id, !.input = <<body>>,
                               !.elements = <<updatedElement>>],
                            <<message>>)
                 /\ sessions' = [sessions EXCEPT ![sid] =
                                   [session EXCEPT
                                      !.elements = MapSet(session.elements, id, updatedElement)]]
                 /\ ws' = broadcastToSession(sid, message)
                 /\ UNCHANGED <<sessionClients, nextId, exports>>

----------------------------------------------------------------------------
(* DELETE /api/sessions/:sessionId/elements/:id *)

\* DeleteElement, had it removed nothing but published the deletion of an id
\* the store does not hold
DeleteElementPublishesNotFound(sid, id) ==
    LET session == getSession(sid)
        message == [NoMessage EXCEPT !.type = "element_deleted",
                                     !.sessionId = sid, !.elementId = id]
    IN  IF ~session.exists \/ ~MapHas(session.elements, id)
        THEN /\ Handled(Response("delete", sid, 404), <<message>>)
             /\ sessions' = [sessions EXCEPT ![sid] = session]
             /\ ws' = broadcastToSession(sid, message)
             /\ UNCHANGED <<sessionClients, nextId, exports>>
        ELSE /\ Handled([Response("delete", sid, 200) EXCEPT !.id = id],
                        <<message>>)
             /\ sessions' = [sessions EXCEPT ![sid] =
                               [session EXCEPT
                                  !.elements = MapDelete(session.elements, id)]]
             /\ ws' = broadcastToSession(sid, message)
             /\ UNCHANGED <<sessionClients, nextId, exports>>

DeleteElement(sid, id) ==
    LET session == getSession(sid)
    IN  IF ~session.exists \/ ~MapHas(session.elements, id)
        THEN /\ Handled(Response("delete", sid, 404), <<>>)
             /\ sessions' = [sessions EXCEPT ![sid] = session]
             /\ UNCHANGED <<sessionClients, nextId, ws, exports>>
        ELSE LET message == [NoMessage EXCEPT !.type = "element_deleted",
                                              !.sessionId = sid, !.elementId = id]
             IN  /\ Handled([Response("delete", sid, 200) EXCEPT !.id = id],
                            <<message>>)
                 /\ sessions' = [sessions EXCEPT ![sid] =
                                   [session EXCEPT
                                      !.elements = MapDelete(session.elements, id)]]
                 /\ ws' = broadcastToSession(sid, message)
                 /\ UNCHANGED <<sessionClients, nextId, exports>>

----------------------------------------------------------------------------
(* POST /api/sessions/:sessionId/elements/batch *)

\* the number of items the forEach handles before CreateElementSchema.parse throws
RECURSIVE ValidPrefix(_)
ValidPrefix(items) ==
    IF items = <<>> \/ ~CreateElementSchemaOk(Head(items)) THEN 0
    ELSE 1 + ValidPrefix(Tail(items))

\* the element created for the i-th item: stored under a generated id
BatchElement(items, i) == NewElement(generateId(nextId + i), items[i])

\* BatchSet, had the items been set from the last to the first
RECURSIVE BatchSetReversed(_, _, _)
BatchSetReversed(m, items, n) ==
    IF n = 0 THEN m
    ELSE BatchSetReversed(MapSet(m, generateId(nextId + n), BatchElement(items, n)),
                          items, n - 1)

\* the store after the first n items have been set
RECURSIVE BatchSet(_, _, _)
BatchSet(m, items, n) ==
    IF n = 0 THEN m
    ELSE MapSet(BatchSet(m, items, n - 1), generateId(nextId + n), BatchElement(items, n))

BatchCreate(sid, isArray, items) ==
    LET registry == getOrCreateSession(sid)
        session == registry[sid]
        n == ValidPrefix(items)
        createdElements == [i \in 1..n |-> BatchElement(items, i)]
        message == [NoMessage EXCEPT !.type = "elements_batch_created",
                                     !.sessionId = sid, !.elements = createdElements]
    IN  IF ~isArray
        THEN /\ Handled(Response("batch", sid, 400), <<>>)
             /\ sessions' = registry
             /\ UNCHANGED <<sessionClients, nextId, ws, exports>>
        ELSE IF n < Len(items)
        THEN \* an item fails validation: the items before it stay stored
             /\ Handled([Response("batch", sid, 400) EXCEPT !.given = GivenIds(items)],
                        <<>>)
             /\ sessions' = [registry EXCEPT
                               ![sid].elements = BatchSet(session.elements, items, n)]
             /\ nextId' = nextId + n
             /\ UNCHANGED <<sessionClients, ws, exports>>
        ELSE /\ Handled([Response("batch", sid, 200) EXCEPT
                           !.count = n, !.given = GivenIds(items),
                           !.input = items, !.elements = createdElements],
                        <<message>>)
             /\ sessions' = [registry EXCEPT
                               ![sid].elements = BatchSet(session.elements, items, n)]
             /\ nextId' = nextId + n
             /\ ws' = broadcastToSession(sid, message)
             /\ UNCHANGED <<sessionClients, exports>>

----------------------------------------------------------------------------
(* POST /api/sessions/:sessionId/elements/sync *)

\* SyncLoop for session s1, had session.elements.clear() been left out
RECURSIVE SyncLoopWithoutClear(_, _)
SyncLoopWithoutClear(elements, n) ==
    IF n = 0
    THEN [elements |-> sessions["s1"].elements, generated |-> 0, successCount |-> 0]
    ELSE LET before == SyncLoopWithoutClear(elements, n - 1)
             element == elements[n]
         IN  IF element = NullElement
             THEN before
             ELSE LET generated == ~Truthy(element.id)
                      elementId == IF generated
                                   THEN generateId(nextId + before.generated + 1)
                                   ELSE element.id
                  IN  [elements |-> MapSet(before.elements, elementId,
                                           ProcessedElement(element, elementId)),
                       generated |-> before.generated + (IF generated THEN 1 ELSE 0),
                       successCount |-> before.successCount + 1]

\* SyncLoop as another handler would see it, had the forEach yielded
\* before its last element
RECURSIVE SyncLoopInterrupted(_, _)
SyncLoopInterrupted(elements, n) ==
    IF n = 0 THEN [elements |-> <<>>, generated |-> 0, successCount |-> 0]
    ELSE LET before == SyncLoopInterrupted(elements, n - 1)
             element == elements[n]
         IN  IF element = NullElement \/ n = Len(elements)
             THEN before
             ELSE LET generated == ~Truthy(element.id)
                      elementId == IF generated
                                   THEN generateId(nextId + before.generated + 1)
                                   ELSE element.id
                  IN  [elements |-> MapSet(before.elements, elementId,
                                           ProcessedElement(element, elementId)),
                       generated |-> before.generated + (IF generated THEN 1 ELSE 0),
                       successCount |-> before.successCount + 1]

\* the forEach over the first n elements, from an empty store: the rebuilt
\* store, the number of ids generated and the number of elements stored
RECURSIVE SyncLoop(_, _)
SyncLoop(elements, n) ==
    IF n = 0 THEN [elements |-> <<>>, generated |-> 0, successCount |-> 0]
    ELSE LET before == SyncLoop(elements, n - 1)
             element == elements[n]
         IN  IF element = NullElement
             THEN before   \* element.id throws, the catch logs and goes on
             ELSE LET generated == ~Truthy(element.id)
                      elementId == IF generated
                                   THEN generateId(nextId + before.generated + 1)
                                   ELSE element.id
                  IN  [elements |-> MapSet(before.elements, elementId,
                                           ProcessedElement(element, elementId)),
                       generated |-> before.generated + (IF generated THEN 1 ELSE 0),
                       successCount |-> before.successCount + 1]

\* kind: what req.body.elements is: "undefined", a "string", or an "array"
SyncElements(sid, kind, elements) ==
    LET registry == getOrCreateSession(sid)
        result == SyncLoop(elements, Len(elements))
        message == [NoMessage EXCEPT !.type = "elements_synced",
                                     !.sessionId = sid, !.count = result.successCount]
    IN  IF kind = "undefined"
        THEN \* frontendElements.length throws a TypeError: 500
             /\ Handled(Response("sync", sid, 500), <<>>)
             /\ sessions' = registry
             /\ UNCHANGED <<sessionClients, nextId, ws, exports>>
        ELSE IF kind # "array"
        THEN /\ Handled(Response("sync", sid, 400), <<>>)
             /\ sessions' = registry
             /\ UNCHANGED <<sessionClients, nextId, ws, exports>>
        ELSE /\ Handled([Response("sync", sid, 200) EXCEPT
                           !.count = result.successCount, !.given = GivenIds(elements),
                           !.input = elements],
                        <<message>>)
             /\ sessions' = [registry EXCEPT ![sid].elements = result.elements]
             /\ nextId' = nextId + result.generated
             /\ ws' = broadcastToSession(sid, message)
             /\ UNCHANGED <<sessionClients, exports>>

----------------------------------------------------------------------------
(* POST /api/sessions/:sessionId/export *)

\* the titles a caller sends with an export: none, or a name
Titles == {NoTitle, "t"}

\* the URL exportSessionToImage answers for the image of a session: the file
\* is named after the session and Date.now() at the screenshot
ImageUrl(sid, timestamp) == "/exports/" \o sid \o "-" \o ToString(timestamp) \o ".png"

\* Date.now() at the screenshot of an export, in requests handled so far: an
\* export of a session that follows another reads a later time
Timestamp == ops

\* updateSessionTitle
updateSessionTitle(session, title) ==
    IF session.exists THEN [session EXCEPT !.title = title, !.lastActivity = now]
    ELSE session

\* finalizeSession, had it flipped the flag instead of setting it
finalizeSessionToggles(session, imageUrl) ==
    IF session.exists
    THEN [session EXCEPT !.isFinalized = ~@, !.imageUrl = imageUrl, !.lastActivity = now]
    ELSE session

\* finalizeSession
finalizeSession(session, imageUrl) ==
    IF session.exists
    THEN [session EXCEPT !.isFinalized = TRUE, !.imageUrl = imageUrl, !.lastActivity = now]
    ELSE session

\* the export handler up to its await: 404 for an unknown session, else the
\* title is set when one is given and exportSessionToImage is started
ExportRequest(sid, title) ==
    LET session == getSession(sid)
    IN  /\ sid \notin exports
        /\ IF ~session.exists
           THEN /\ Handled(Response("export", sid, 404), <<>>)
                /\ UNCHANGED <<sessions, exports>>
           ELSE /\ Handled(Response("export", sid, 0), <<>>)
                /\ sessions' = [sessions EXCEPT ![sid] =
                                  IF title # NoTitle THEN updateSessionTitle(session, title)
                                  ELSE session]
                /\ exports' = exports \cup {sid}
        /\ UNCHANGED <<sessionClients, nextId, ws>>

\* exportSessionToImage settles: a failure is answered 500, a success
\* finalizes the session of this id, if there is one, and is answered 200
ExportDone(sid, success) ==
    /\ sid \in exports
    /\ exports' = exports \ {sid}
    /\ resp' = Response("export", sid, IF success THEN 200 ELSE 500)
    /\ published' = <<>>
    /\ sessions' = IF success
                   THEN [sessions EXCEPT ![sid] = finalizeSession(@, ImageUrl(sid, Timestamp))]
                   ELSE sessions
    /\ UNCHANGED <<sessionClients, nextId, ws, ops, now>>

----------------------------------------------------------------------------
(* WebSocket connections (server side) *)

\* Preamble, had the count been sent before the snapshot
PreambleCountFirst(sid, session) ==
    << [NoMessage EXCEPT !.type = "session_info", !.sessionId = sid],
       [NoMessage EXCEPT !.type = "sync_status", !.sessionId = sid,
                         !.count = Len(session.elements)],
       [NoMessage EXCEPT !.type = "initial_elements", !.sessionId = sid,
                         !.elements = MapValues(session.elements)] >>

\* the three messages the connection handler sends to the new client
Preamble(sid, session) ==
    << [NoMessage EXCEPT !.type = "session_info", !.sessionId = sid],
       [NoMessage EXCEPT !.type = "initial_elements", !.sessionId = sid,
                         !.elements = MapValues(session.elements)],
       [NoMessage EXCEPT !.type = "sync_status", !.sessionId = sid,
                         !.count = Len(session.elements)] >>

\* wss.on('connection'): the App of observer o opens a socket for session sid;
\* api tells whether the message handler the socket is given sees the
\* Excalidraw API (the handler keeps the value of the render that connected)
Connection(o, sid, api) ==
    LET registry == getOrCreateSession(sid)
        preamble == Preamble(sid, registry[sid])
        clients == IF sid \in DOMAIN sessionClients THEN sessionClients[sid] ELSE {}
    IN  /\ ws[o].readyState \in {"NONE", "CLOSED"}
        /\ ws[o].readyState = "CLOSED" => sid = ws[o].sessionId   \* an App reconnects to its session
        /\ o = "o2" => ws["o1"].readyState # "NONE"   \* o1 names the first App to connect
        /\ Handled(Response("connection", sid, 0), <<>>)
        /\ sessions' = registry
        /\ sessionClients' =
               [s \in DOMAIN sessionClients \cup {sid} |->
                   IF s = sid THEN clients \cup {o} ELSE sessionClients[s]]
        /\ ws' = [ws EXCEPT ![o] =
                    [readyState |-> "OPEN", sessionId |-> sid,
                     session |-> registry[sid].createdAt, api |-> api,
                     inbox |-> preamble,
                     log |-> [i \in 1..Len(preamble) |-> preamble[i].type],
                     scene |-> ws[o].scene]]
        /\ UNCHANGED <<nextId, exports>>

\* the socket starts closing (either side): readyState leaves OPEN before the
\* server's 'close' event is emitted
Closing(o) ==
    /\ ws[o].readyState = "OPEN"
    /\ ws' = [ws EXCEPT ![o].readyState = "CLOSING"]
    /\ UNCHANGED <<sessions, sessionClients, nextId, resp, published, ops, now, exports>>

\* ws.on('close'): the client leaves the set, an empty set is unmapped;
\* what was sent and not yet received is lost with the connection
OnClose(o) ==
    LET sid == ws[o].sessionId
    IN  /\ ws[o].readyState \in {"OPEN", "CLOSING"}
        /\ sessionClients' =
               IF sid \in DOMAIN sessionClients
               THEN IF sessionClients[sid] \ {o} = {}
                    THEN [s \in DOMAIN sessionClients \ {sid} |-> sessionClients[s]]
                    ELSE [sessionClients EXCEPT ![sid] = @ \ {o}]
               ELSE sessionClients
        /\ ws' = [ws EXCEPT ![o].readyState = "CLOSED", ![o].inbox = <<>>]
        /\ UNCHANGED <<sessions, nextId, resp, published, ops, now, exports>>

\* ws.on('error'): the socket fails and is closing; the client leaves the
\* set, which stays mapped even when it is empty.  The socket's 'close'
\* event follows
OnError(o) ==
    LET sid == ws[o].sessionId
    IN  /\ ws[o].readyState \in {"OPEN", "CLOSING"}
        /\ sessionClients' =
               IF sid \in DOMAIN sessionClients
               THEN [sessionClients EXCEPT ![sid] = @ \ {o}]
               ELSE sessionClients
        /\ ws' = [ws EXCEPT ![o].readyState = "CLOSING"]
        /\ UNCHANGED <<sessions, nextId, resp, published, ops, now, exports>>

----------------------------------------------------------------------------
(* The browser client (App.tsx) *)

\* cleanElementForExcalidraw: drops createdAt, updatedAt, version, syncedAt, source
cleanElementForExcalidraw(element) ==
    [id |-> element.id, type |-> element.type, x |-> element.x, y |-> element.y]

CleanAll(elements) ==
    [i \in 1..Len(elements) |-> cleanElementForExcalidraw(elements[i])]

\* Array.prototype.filter on the scene
RECURSIVE SceneWithout(_, _)
SceneWithout(scene, id) ==
    IF scene = <<>> THEN <<>>
    ELSE IF Head(scene).id = id THEN SceneWithout(Tail(scene), id)
    ELSE <<Head(scene)>> \o SceneWithout(Tail(scene), id)

\* handleWebSocketMessage: the scene after the message.  The conversion of
\* the rendering library is taken to keep the id and the fields of an element.
handleWebSocketMessage(api, scene, data) ==
    IF ~api /\ data.type # "session_info" THEN scene
    ELSE CASE data.type = "initial_elements" ->
                IF Len(data.elements) > 0 THEN CleanAll(data.elements) ELSE scene
           [] data.type = "element_created" ->
                Append(scene, cleanElementForExcalidraw(data.element))
           [] data.type = "element_updated" ->
                [i \in 1..Len(scene) |->
                    IF scene[i].id = data.element.id
                    THEN cleanElementForExcalidraw(data.element)
                    ELSE scene[i]]
           [] data.type = "element_deleted" ->
                IF Truthy(data.elementId) THEN SceneWithout(scene, data.elementId)
                ELSE scene
           [] data.type = "elements_batch_created" ->
                scene \o CleanAll(data.elements)
           [] OTHER -> scene   \* session_info, sync_status, elements_synced: logged only

\* websocket.onmessage: the client takes the next message off its socket
OnMessage(o) ==
    /\ ws[o].inbox # <<>>
    /\ ws' = [ws EXCEPT ![o].inbox = Tail(@),
                        ![o].scene = handleWebSocketMessage(ws[o].api, @, Head(ws[o].inbox))]
    /\ UNCHANGED <<sessions, sessionClients, nextId, resp, published, ops, now, exports>>

----------------------------------------------------------------------------
(* The tool surface of the canvas server (mcp-handler.ts) *)

\* the arguments of create_element and the items of batch_create_elements:
\* one that ElementSchema accepts and one it rejects
ElementArgs ==
    {[type |-> "rectangle", x |-> 1, y |-> 0],
     [type |-> "bogus", x |-> 1, y |-> 0]}

\* ElementSchema.parse succeeds
ElementSchemaOk(args) ==
    /\ args.type \in EXCALIDRAW_ELEMENT_TYPES
    /\ IsNumber(args.x)
    /\ IsNumber(args.y)

\* what the body of the handler ends with: a returned result, or an error thrown
Returned == [kind |-> "return", isError |-> FALSE]
Thrown == [kind |-> "throw", isError |-> FALSE]

\* handleMcpToolCall, had its body run outside the try block
Uncaught(outcome) == IF outcome.kind = "throw" THEN "exception" ELSE "text"

\* the try/catch around the body of handleMcpToolCall: what the caller gets,
\* a text result or, for an error thrown, an isError result with its message
Caught(outcome) == IF outcome.kind = "throw" THEN "isError" ELSE "text"

\* createSession() without an id: the id generateSessionId draws, taken to
\* be one that names no session; the ids are drawn in the order s1, s2
FreshSessionIds ==
    IF ~sessions["s1"].exists THEN {"s1"}
    ELSE {sid \in SessionIds : ~sessions[sid].exists}

\* a title that is not a string
NotString == "<not a string>"

\* the titles a caller gives start_diagram and finish_diagram
ToolTitles == Titles \cup {NotString}

\* an invocation of caller c ends before any await: its result
Answered(c, tool, valid, outcome) ==
    [NoResult EXCEPT !.caller = c, !.tool = tool, !.valid = valid,
                     !.bound = currentSessionId # NoId, !.content = Caught(outcome)]

\* the invocation of caller c ends after its await: its result
AnsweredAfter(c, exported, outcome) ==
    [NoResult EXCEPT !.caller = c, !.tool = calls[c].pending.tool, !.valid = TRUE,
                     !.bound = calls[c].pending.bound, !.exported = exported,
                     !.content = Caught(outcome)]

\* the requests of callInternalApi that await their response
InFlight ==
    {c \in Callers :
        calls[c].pending.tool \in {"create_element", "batch_create_elements", "delete_element"}}

\* the behaviour has a request left for an invocation that sends one, and
\* for every request in flight
CanRequest == ops + Cardinality(InFlight) < MaxOps

\* an invocation of caller c reaches its await: the request it waits for
Awaiting(c, request) ==
    [calls EXCEPT ![c].pending = [request EXCEPT !.bound = currentSessionId # NoId]]

\* caller c, which awaits no result, invokes a tool
Invoked(c) ==
    /\ calls[c].pending = NoCall
    /\ c = "c2" => invocations > 0   \* c1 names the first caller to invoke a tool
    /\ invocations < MaxCalls
    /\ invocations' = invocations + 1

\* case 'start_diagram'
start_diagram(c, title) ==
    /\ Invoked(c)
    /\ IF title = NotString
       THEN /\ toolResult' = Answered(c, "start_diagram", FALSE, Thrown)
            /\ UNCHANGED <<sessions, currentSessionId, calls>>
       ELSE \E sid \in FreshSessionIds :
               /\ sessions' = [sessions EXCEPT ![sid] =
                                 IF title # NoTitle
                                 THEN updateSessionTitle(createSession(sid), title)
                                 ELSE createSession(sid)]
               /\ currentSessionId' = sid
               /\ calls' = [calls EXCEPT ![c].own = sid]
               /\ toolResult' = Answered(c, "start_diagram", TRUE, Returned)
    /\ UNCHANGED <<sessionClients, nextId, ws, resp, published, ops, now, exports>>

\* if (!currentSessionId) { const session = createSession(); currentSessionId
\* = session.id }: sid is the session id that is current afterwards
Bind(sid) ==
    /\ IF currentSessionId # NoId
       THEN sid = currentSessionId /\ sessions' = sessions
       ELSE sid \in FreshSessionIds /\ sessions' = [sessions EXCEPT ![sid] = createSession(sid)]
    /\ currentSessionId' = sid

\* { id, ...params, version: 1 } of the n-th id generated from now on
ToolElement(params, n) ==
    [id |-> generateId(nextId + n), type |-> params.type, x |-> params.x, y |-> params.y]

\* case 'create_element' up to its await: the arguments are parsed, a
\* session is made current when none is, an id is generated and the POST of
\* the element is sent to the session that is current
create_element(c, args) ==
    /\ Invoked(c)
    /\ IF ~ElementSchemaOk(args)
       THEN /\ toolResult' = Answered(c, "create_element", FALSE, Thrown)
            /\ UNCHANGED <<sessions, currentSessionId, nextId, calls>>
       ELSE \E sid \in SessionIds :
               /\ CanRequest
               /\ Bind(sid)
               /\ nextId' = nextId + 1
               /\ calls' = Awaiting(c, [NoCall EXCEPT !.tool = "create_element",
                                                      !.sessionId = sid,
                                                      !.elements = <<ToolElement(args, 1)>>])
               /\ UNCHANGED toolResult
    /\ UNCHANGED <<sessionClients, ws, resp, published, ops, now, exports>>

\* case 'batch_create_elements' up to its await
batch_create_elements(c, elements) ==
    /\ Invoked(c)
    /\ IF \E i \in 1..Len(elements) : ~ElementSchemaOk(elements[i])
       THEN /\ toolResult' = Answered(c, "batch_create_elements", FALSE, Thrown)
            /\ UNCHANGED <<sessions, currentSessionId, nextId, calls>>
       ELSE \E sid \in SessionIds :
               /\ CanRequest
               /\ Bind(sid)
               /\ nextId' = nextId + Len(elements)
               /\ calls' = Awaiting(c, [NoCall EXCEPT !.tool = "batch_create_elements",
                                                      !.sessionId = sid,
                                                      !.elements =
                                                          [i \in 1..Len(elements) |->
                                                              ToolElement(elements[i], i)]])
               /\ UNCHANGED toolResult
    /\ UNCHANGED <<sessionClients, ws, resp, published, ops, now, exports>>

\* case 'delete_element' up to its await; id is NoId when the arguments
\* carry none
delete_element(c, id) ==
    /\ Invoked(c)
    /\ IF id = NoId
       THEN /\ toolResult' = Answered(c, "delete_element", FALSE, Thrown)
            /\ UNCHANGED calls
       ELSE IF currentSessionId = NoId
       THEN \* throw new Error('No active session. Call start_diagram first.')
            /\ toolResult' = Answered(c, "delete_element", TRUE, Thrown)
            /\ UNCHANGED calls
       ELSE /\ CanRequest
            /\ calls' = Awaiting(c, [NoCall EXCEPT !.tool = "delete_element",
                                                   !.sessionId = currentSessionId,
                                                   !.id = id])
            /\ UNCHANGED toolResult
    /\ UNCHANGED <<sessions, sessionClients, nextId, ws, resp, published, ops, now,
                   exports, currentSessionId>>

\* case 'finish_diagram' up to its await: the title is set and
\* exportSessionToImage is started for the session that is current
finish_diagram(c, title) ==
    /\ Invoked(c)
    /\ IF title = NotString
       THEN /\ toolResult' = Answered(c, "finish_diagram", FALSE, Thrown)
            /\ UNCHANGED <<sessions, resp, published, ops, calls>>
       ELSE IF currentSessionId = NoId
       THEN \* throw new Error('No active session. Call start_diagram first.')
            /\ toolResult' = Answered(c, "finish_diagram", TRUE, Thrown)
            /\ UNCHANGED <<sessions, resp, published, ops, calls>>
       ELSE /\ CanRequest
            /\ ops' = ops + 1
            /\ resp' = Response("finish_diagram", currentSessionId, 0)
            /\ published' = <<>>
            /\ sessions' = [sessions EXCEPT ![currentSessionId] =
                              IF title # NoTitle THEN updateSessionTitle(@, title) ELSE @]
            /\ calls' = Awaiting(c, [NoCall EXCEPT !.tool = "finish_diagram",
                                                   !.sessionId = currentSessionId])
            /\ UNCHANGED toolResult
    /\ UNCHANGED <<sessionClients, nextId, ws, now, exports, currentSessionId>>

\* default: a tool name the switch does not know
UnknownTool(c) ==
    /\ Invoked(c)
    /\ toolResult' = Answered(c, "unknown", FALSE, Thrown)
    /\ UNCHANGED <<sessions, sessionClients, nextId, ws, resp, published, ops, now,
                   exports, currentSessionId, calls>>

\* the request of caller c is handled by its route; callInternalApi resolves
\* with the body of the response, which the handler does not look at: it
\* returns its confirmation
InternalApi(c) ==
    LET request == calls[c].pending
    IN  /\ c \in InFlight
        /\ CASE request.tool = "create_element" ->
                    CreateElement(request.sessionId, request.elements[1])
             [] request.tool = "batch_create_elements" ->
                    BatchCreate(request.sessionId, TRUE, request.elements)
             [] request.tool = "delete_element" ->
                    DeleteElement(request.sessionId, request.id)
        /\ calls' = [calls EXCEPT ![c].pending = NoCall]
        /\ toolResult' = AnsweredAfter(c, "none", Returned)
        /\ UNCHANGED <<currentSessionId, invocations>>

\* the fetch of callInternalApi rejects, or the response is not JSON: the
\* await throws
InternalApiRejects(c) ==
    /\ c \in InFlight
    /\ Handled(Response(calls[c].pending.tool, calls[c].pending.sessionId, 0), <<>>)
    /\ calls' = [calls EXCEPT ![c].pending = NoCall]
    /\ toolResult' = AnsweredAfter(c, "none", Thrown)
    /\ UNCHANGED <<sessions, sessionClients, nextId, ws, exports, currentSessionId,
                   invocations>>

\* exportSessionToImage settles for the finish_diagram of caller c: on
\* success the session that is current now is finalized; the handler
\* returns its text, with the link of the session that is current now, in
\* either case
FinishDone(c, success) ==
    LET request == calls[c].pending
    IN  /\ request.tool = "finish_diagram"
        /\ sessions' = IF success
                       THEN [sessions EXCEPT ![currentSessionId] =
                               finalizeSession(@, ImageUrl(request.sessionId, Timestamp))]
                       ELSE sessions
        /\ calls' = [calls EXCEPT ![c].pending = NoCall]
        /\ toolResult' = [AnsweredAfter(c, IF success THEN "success" ELSE "failure",
                                        Returned)
                              EXCEPT !.link = currentSessionId]
        /\ UNCHANGED <<sessionClients, nextId, ws, resp, published, ops, now, exports,
                       currentSessionId, invocations>>

----------------------------------------------------------------------------
(* Specification *)

\* the requests of the REST surface on session sid, their bodies drawn from
\* in, while the behaviour has a request left (the guard of Handled, stated
\* before the bodies are enumerated)
Requests(sid, in) ==
    /\ ops < MaxOps
    /\ \/ \E body \in in.items : CreateElement(sid, body)
       \/ \E id \in PathIds, body \in in.updates : UpdateElement(sid, id, body)
       \/ \E id \in PathIds : DeleteElement(sid, id)
       \/ \E items \in SeqUpTo(in.batch, MaxBatch) : BatchCreate(sid, TRUE, items)
       \/ BatchCreate(sid, FALSE, <<>>)
       \/ \E elements \in SeqUpTo(in.sync, MaxBatch) : SyncElements(sid, "array", elements)
       \/ \E kind \in {"undefined", "string"} : SyncElements(sid, kind, <<>>)

\* every request body of the bounded sets
StoreInputs ==
    [items |-> ItemInputs, updates |-> UpdateInputs, batch |-> BatchInputs, sync |-> SyncInputs]

NextStore ==
    \/ Requests("s1", StoreInputs) /\ UNCHANGED <<mcp, editor, sse>>
    \/ GetElements("s1") /\ UNCHANGED <<mcp, editor, sse>>

\* the element store of one session under every request of the REST surface
SpecStore == Init /\ [][NextStore]_vars

\* the request bodies used while observers are attached: an accepted and a
\* rejected one for each operation, with an explicit and a generated id
BusInputs ==
    [items |-> {b \in ItemInputs : b.id = "a" \/ b.type = "bogus"},
     updates |-> {b \in UpdateInputs : b.x \in {2, NotNumber}},
     batch |-> {b \in BatchInputs : b.id = NoId},
     sync |-> {e \in SyncInputs : e.id = "a"}]

Next ==
    \/ Requests("s1", BusInputs) /\ UNCHANGED <<mcp, editor, sse>>
    \/ \E o \in Observers, sid \in SessionIds : Connection(o, sid, TRUE) /\ UNCHANGED <<mcp, editor, sse>>
    \/ \E o \in Observers : Closing(o) /\ UNCHANGED <<mcp, editor, sse>>
    \/ \E o \in Observers : OnClose(o) /\ UNCHANGED <<mcp, editor, sse>>
    \/ \E o \in Observers : OnMessage(o) /\ UNCHANGED <<mcp, editor, sse>>

\* the server and its broadcast bus: the REST surface on one session,
\* observers on two, each connecting once its editor is mounted
Spec == Init /\ [][Next]_vars

\* the incremental writes (create, update, delete, batch create) that the
\* server accepts, and the observers
NextWrites ==
    \/ \E body \in BusInputs.items : CreateElement("s1", body) /\ resp'.status = 200 /\ UNCHANGED <<mcp, editor, sse>>
    \/ \E id \in PathIds, body \in BusInputs.updates :
           UpdateElement("s1", id, body) /\ resp'.status = 200 /\ UNCHANGED <<mcp, editor, sse>>
    \/ \E id \in PathIds : DeleteElement("s1", id) /\ resp'.status = 200 /\ UNCHANGED <<mcp, editor, sse>>
    \/ \E items \in SeqUpTo(BusInputs.batch, MaxBatch) :
           BatchCreate("s1", TRUE, items) /\ resp'.status = 200 /\ UNCHANGED <<mcp, editor, sse>>
    \/ \E o \in Observers, sid \in SessionIds, api \in BOOLEAN : Connection(o, sid, api) /\ UNCHANGED <<mcp, editor, sse>>
    \/ \E o \in Observers : Closing(o) /\ UNCHANGED <<mcp, editor, sse>>
    \/ \E o \in Observers : OnClose(o) /\ UNCHANGED <<mcp, editor, sse>>
    \/ \E o \in Observers : OnMessage(o) /\ UNCHANGED <<mcp, editor, sse>>

\* the system when every write is an accepted incremental write; an observer
\* connects with or without its editor mounted
SpecWrites == Init /\ [][NextWrites]_vars

\* the elements of the full-resync requests of SpecSync: those of SyncInputs
\* and a second element of id "a" with other fields
ResyncInputs ==
    SyncInputs \cup {[id |-> "a", type |-> "ellipse", x |-> 3, y |-> 0, version |-> Absent]}

NextSync ==
    /\ ops < MaxOps
    /\ \/ \E body \in {b \in ItemInputs : CreateElementSchemaOk(b)} :
              CreateElement("s1", body) /\ UNCHANGED <<mcp, editor, sse>>
       \/ \E id \in PathIds : UpdateElement("s1", id, UpdateInputs_x2) /\ UNCHANGED <<mcp, editor, sse>>
       \/ \E elements \in SeqUpTo(ResyncInputs, MaxBatch) :
              SyncElements("s1", "array", elements) /\ UNCHANGED <<mcp, editor, sse>>

\* one session under creates, updates and full-resyncs
SpecSync == Init /\ [][NextSync]_vars

\* the request bodies used on two sessions: one accepted body per operation
TwoSessionInputs ==
    [items |-> {b \in ItemInputs : b.id = "a"},
     updates |-> {UpdateInputs_x2},
     batch |-> {b \in BatchInputs : b.id = NoId /\ CreateElementSchemaOk(b)},
     sync |-> {e \in SyncInputs : e.id = "a"}]

NextSessions ==
    \/ \E sid \in SessionIds : Requests(sid, TwoSessionInputs) /\ UNCHANGED <<mcp, editor, sse>>
    \/ \E sid \in SessionIds, title \in Titles : ExportRequest(sid, title) /\ UNCHANGED <<mcp, editor, sse>>
    \/ \E sid \in SessionIds, success \in BOOLEAN : ExportDone(sid, success) /\ UNCHANGED <<mcp, editor, sse>>
    \/ \E o \in Observers, sid \in SessionIds : Connection(o, sid, TRUE) /\ UNCHANGED <<mcp, editor, sse>>

\* two sessions under the REST surface, exports included, and their observers
SpecSessions == Init /\ [][NextSessions]_vars

NextSockets ==
    \/ /\ ops < MaxOps
       /\ \E body \in TwoSessionInputs.items : CreateElement("s1", body) /\ UNCHANGED <<mcp, editor, sse>>
    \/ \E o \in Observers, sid \in SessionIds : Connection(o, sid, TRUE) /\ UNCHANGED <<mcp, editor, sse>>
    \/ \E o \in Observers : Closing(o) /\ UNCHANGED <<mcp, editor, sse>>
    \/ \E o \in Observers : OnClose(o) /\ UNCHANGED <<mcp, editor, sse>>
    \/ \E o \in Observers : OnError(o) /\ UNCHANGED <<mcp, editor, sse>>
    \/ \E o \in Observers : OnMessage(o) /\ UNCHANGED <<mcp, editor, sse>>

\* the sockets of the observers from connection to close, errors included,
\* while elements are created
SpecSockets == Init /\ [][NextSockets]_vars

NextSweep ==
    \/ \E sid \in SessionIds :
           /\ ops < MaxOps
           /\ \E body \in TwoSessionInputs.items : CreateElement(sid, body) /\ UNCHANGED <<mcp, editor, sse>>
    \/ \E sid \in SessionIds : GetElements(sid) /\ UNCHANGED <<mcp, editor, sse>>
    \/ \E o \in Observers, sid \in SessionIds : Connection(o, sid, TRUE) /\ UNCHANGED <<mcp, editor, sse>>
    \/ Tick /\ UNCHANGED <<mcp, editor, sse>>
    \/ cleanupExpiredSessions /\ UNCHANGED <<mcp, editor, sse>>

\* two sessions and their observers while the clock advances and the
\* sweep runs
SpecSweep == Init /\ [][NextSweep]_vars

\* the element lists of batch_create_elements: lists of accepted elements,
\* and one with an element that is rejected
BatchArgs ==
    (SeqUpTo({e \in ElementArgs : ElementSchemaOk(e)}, MaxBatch) \ {<<>>})
    \cup {<<CHOOSE e \in ElementArgs : ~ElementSchemaOk(e)>>}

NextTools ==
    \/ \E c \in Callers, title \in ToolTitles : start_diagram(c, title) /\ UNCHANGED <<editor, sse>>
    \/ \E c \in Callers, args \in ElementArgs : create_element(c, args) /\ UNCHANGED <<editor, sse>>
    \/ \E c \in Callers, elements \in BatchArgs :
           batch_create_elements(c, elements) /\ UNCHANGED <<editor, sse>>
    \/ \E c \in Callers, id \in PathIds \cup {NoId} : delete_element(c, id) /\ UNCHANGED <<editor, sse>>
    \/ \E c \in Callers, title \in ToolTitles : finish_diagram(c, title) /\ UNCHANGED <<editor, sse>>
    \/ \E c \in Callers : UnknownTool(c) /\ UNCHANGED <<editor, sse>>
    \/ \E c \in Callers : InternalApi(c) /\ UNCHANGED <<editor, sse>>
    \/ \E c \in Callers : InternalApiRejects(c) /\ UNCHANGED <<editor, sse>>
    \/ \E c \in Callers, success \in BOOLEAN : FinishDone(c, success) /\ UNCHANGED <<editor, sse>>

\* two callers of the tool surface of the canvas server
SpecTools == Init /\ [][NextTools]_vars

----------------------------------------------------------------------------
(* The binding repair of the editor (App.tsx) *)

\* a field that is null
Null == "<null>"

\* a field that a condition takes for true: a non-empty string, not null
IsSet(value) == Truthy(value) /\ value # Null

\* the entries of boundElements: objects { id, type }, and a value that is
\* not an object
Binding(id, type) == [object |-> TRUE, id |-> id, type |-> type]
NotObject == [object |-> FALSE, id |-> NoId, type |-> NoType]

\* the values of boundElements: undefined, null, an array of entries, or a
\* truthy value that is not an array
NoBindings(kind) == [kind |-> kind, entries |-> <<>>]
Bindings(entries) == [kind |-> "array", entries |-> entries]

\* the kinds of binding validateAndFixBindings lets through
ALLOWED_BINDING_TYPES == {"text", "arrow"}

\* validateAndFixBindings had it not looked at the type of a binding
validateAndFixBindingsAnyType(elements) ==
    LET elementMap == {elements[i].id : i \in 1..Len(elements)}
        keep(binding) ==
            /\ binding.object
            /\ IsSet(binding.id) /\ IsSet(binding.type)
            /\ binding.id \in elementMap
        fixedElement(element) ==
            LET filtered == SelectSeq(element.boundElements.entries, keep)
            IN  [element EXCEPT
                   !.boundElements =
                       IF @.kind \in {"undefined", "null"} THEN @
                       ELSE IF @.kind = "array" /\ filtered # <<>> THEN Bindings(filtered)
                       ELSE NoBindings("null"),
                   !.containerId =
                       IF IsSet(@) /\ @ \notin elementMap THEN Null ELSE @]
    IN  [i \in 1..Len(elements) |-> fixedElement(elements[i])]

\* validateAndFixBindings: elementMap holds the ids of the elements; of an
\* element's boundElements, when it is truthy, the entries are kept that are
\* objects with an id that the map holds and a type that is allowed, null
\* replaces an empty result and a value that is no array; a truthy
\* containerId that the map does not hold becomes null
validateAndFixBindings(elements) ==
    LET elementMap == {elements[i].id : i \in 1..Len(elements)}
        keep(binding) ==
            /\ binding.object
            /\ IsSet(binding.id) /\ IsSet(binding.type)
            /\ binding.id \in elementMap
            /\ binding.type \in ALLOWED_BINDING_TYPES
        fixedElement(element) ==
            LET filtered == SelectSeq(element.boundElements.entries, keep)
            IN  [element EXCEPT
                   !.boundElements =
                       IF @.kind \in {"undefined", "null"} THEN @
                       ELSE IF @.kind = "array" /\ filtered # <<>> THEN Bindings(filtered)
                       ELSE NoBindings("null"),
                   !.containerId =
                       IF IsSet(@) /\ @ \notin elementMap THEN Null ELSE @]
    IN  [i \in 1..Len(elements) |-> fixedElement(elements[i])]

\* the ids of the elements of a message, by position
ElementIdAt == <<"a", "b", "c">>

\* the boundElements of the elements of a message: no value, null, an empty
\* array, a value that is no array, and arrays whose entries name an element
\* that may be in the message ("a", "b") or is not ("z"), with a type that is
\* allowed or not, or lack a field, or are no objects
BoundElementsInputs ==
    {NoBindings("undefined"), NoBindings("null"), NoBindings("other"), Bindings(<<>>),
     Bindings(<<Binding("a", "text")>>),
     Bindings(<<Binding("z", "arrow")>>),
     Bindings(<<Binding("b", "arrow"), Binding("a", "line")>>),
     Bindings(<<Binding("z", "text"), Binding("b", "text"), Binding("a", "ellipse"),
                Binding("a", "arrow")>>),
     Bindings(<<NotObject, Binding("", "text"), Binding("a", NoType)>>)}

\* the containerId of the elements of a message: none, null, empty, the id
\* of an element that may be in the message, and one that is not
ContainerIdInputs == {NoId, Null, "", "a", "b", "z"}

\* the elements of an initial_elements message
ElementLists ==
    UNION {[1..n -> [boundElements : BoundElementsInputs, containerId : ContainerIdInputs]]
              : n \in 1..MaxElems}

\* the elements of an initial_elements message, cleaned
CleanedInputs ==
    {[i \in 1..Len(fields) |->
         [id |-> ElementIdAt[i], type |-> "rectangle",
          boundElements |-> fields[i].boundElements,
          containerId |-> fields[i].containerId]] : fields \in ElementLists}

\* case 'initial_elements', after cleanElementForExcalidraw: the elements
\* are repaired with validateAndFixBindings before they go to the scene
initial_elements ==
    /\ cleanedElements # <<>>
    /\ validatedElements = <<>>
    /\ validatedElements' = validateAndFixBindings(cleanedElements)
    /\ convertedElements' = [via |-> convertedElements.via \cup {"initial_elements"},
                             elements |-> validatedElements']
    /\ UNCHANGED <<sessions, sessionClients, nextId, ws, resp, published, ops, now,
                   exports, mcp, sse, cleanedElements>>

\* an editor that has received the elements of its session, in the
\* initial_elements message and in the response to its GET of the elements
InitBindings ==
    /\ InitServer
    /\ cleanedElements \in CleanedInputs
    /\ validatedElements = <<>>
    /\ convertedElements = NoInstall

NextBindings == initial_elements

\* the binding repair of every message of the bounded sets
SpecBindings == InitBindings /\ [][NextBindings]_vars

\* loadExistingElements, once its fetch has resolved: the elements of the
\* response are cleaned and given to the scene as they are
loadExistingElements ==
    /\ cleanedElements # <<>>
    /\ "loadExistingElements" \notin convertedElements.via
    /\ convertedElements' = [via |-> convertedElements.via \cup {"loadExistingElements"},
                             elements |-> cleanedElements]
    /\ UNCHANGED <<sessions, sessionClients, nextId, ws, resp, published, ops, now,
                   exports, mcp, sse, cleanedElements, validatedElements>>

\* the element of an element_created event and the elements of an
\* elements_batch_created event: CreateElementSchema.parse has left them
\* neither boundElements nor containerId
CreatedElement(id) ==
    [id |-> id, type |-> "rectangle", boundElements |-> NoBindings("undefined"),
     containerId |-> NoId]

\* the events that add elements to the scene
CreatedEvents ==
    [element_created |-> <<CreatedElement("n")>>,
     elements_batch_created |-> <<CreatedElement("n"), CreatedElement("m")>>]

\* case 'element_created' and case 'elements_batch_created': the elements of
\* the event are cleaned and given to the scene after those it holds
ElementsCreated(type) ==
    /\ convertedElements.via # {}
    /\ convertedElements.via \cap DOMAIN CreatedEvents = {}
    /\ convertedElements' = [via |-> convertedElements.via \cup {type},
                             elements |-> convertedElements.elements \o CreatedEvents[type]]
    /\ UNCHANGED <<sessions, sessionClients, nextId, ws, resp, published, ops, now,
                   exports, mcp, sse, cleanedElements, validatedElements>>

NextInstall ==
    \/ initial_elements
    \/ loadExistingElements
    \/ \E type \in DOMAIN CreatedEvents : ElementsCreated(type)

\* the paths of the editor that hand elements to the scene
SpecInstall == InitBindings /\ [][NextInstall]_vars

----------------------------------------------------------------------------
(* The legacy SSE endpoint of the canvas server (server.ts) *)

\* the MCP clients that use the legacy SSE transport
SseClients == {"k1", "k2", "k3"}

\* the connections the Map holds
Transports == {sseTransports[i] : i \in 1..Len(sseTransports)}

\* GET /sse: a transport is made for the connection of client k and set
\* into sseTransports under a new id (named after the client here)
GetSse(k) ==
    /\ k \notin Transports
    /\ sseTransports' = Append(sseTransports, k)
    /\ UNCHANGED <<sessions, sessionClients, nextId, ws, resp, published, ops, now,
                   exports, mcp, editor, sseDelivery>>

\* res.on('close'): the connection of client k is deleted from the Map
SseClose(k) ==
    /\ k \in Transports
    /\ sseTransports' = SelectSeq(sseTransports, LAMBDA t : t # k)
    /\ UNCHANGED <<sessions, sessionClients, nextId, ws, resp, published, ops, now,
                   exports, mcp, editor, sseDelivery>>

\* POST /sse/message sent by client k: 404 when the Map is empty, else the
\* last transport of the Map is taken, its id is made the current session
\* and its handlePostMessage handles the message, so that the response is
\* sent on the connection of that transport
PostSseMessage(k) ==
    LET transport == sseTransports[Len(sseTransports)]
    IN  /\ IF sseTransports = <<>>
           THEN /\ sseDelivery' = [sender |-> k, open |-> FALSE, transport |-> "none",
                                   status |-> 404]
                /\ UNCHANGED currentSessionId
           ELSE /\ sseDelivery' = [sender |-> k, open |-> k \in Transports,
                                   transport |-> transport, status |-> 202]
                /\ currentSessionId' = transport
        /\ UNCHANGED <<sessions, sessionClients, nextId, ws, resp, published, ops, now,
                       exports, calls, toolResult, invocations, editor, sseTransports>>

NextSse ==
    \/ \E k \in SseClients : GetSse(k)
    \/ \E k \in SseClients : SseClose(k)
    \/ \E k \in SseClients : PostSseMessage(k)

\* the legacy SSE connections of three clients and the messages they post
SpecSse == Init /\ [][NextSse]_vars

----------------------------------------------------------------------------
(* Vocabulary of the properties *)

\* the element store of a session; a session that is not registered has none
Store(sid) == sessions[sid].elements

\* the id fields of the records of a store
RecordIds(m) == {m[i].el.id : i \in 1..Len(m)}

Range(seq) == {seq[i] : i \in 1..Len(seq)}

NoDuplicates(seq) == \A i, j \in 1..Len(seq) : seq[i] = seq[j] => i = j

SceneIds(scene) == [i \in 1..Len(scene) |-> scene[i].id]

\* the step is a request of the REST surface that mutates, answered by resp'
MutationStep == ops' = ops + 1 /\ resp'.op \in MutationOps

\* the clients of session sid that a publish reaches: in the set, socket OPEN
OpenClients(sid) ==
    {o \in Observers : /\ sid \in DOMAIN sessionClients
                       /\ o \in sessionClients[sid]
                       /\ ws[o].readyState = "OPEN"}

\* observer o is attached, its handler applies what it is sent, and it has
\* taken every message sent to it so far
UpToDate(o) ==
    /\ ws[o].readyState = "OPEN"
    /\ ws[o].api
    /\ ws[o].inbox = <<>>

----------------------------------------------------------------------------
(* C1: every successful mutation request (create, update, delete, batch     *)
(* create, full-resync) publishes exactly one event, which reaches exactly  *)
(* the open clients of the request's session, and a mutation request that   *)
(* fails publishes nothing and reaches no client.                           *)

C1_OneEventOnSuccessOnly ==
    [][MutationStep =>
         IF resp'.status = 200
         THEN /\ Len(published') = 1
              /\ published'[1].sessionId = resp'.sessionId
              /\ \A o \in Observers :
                    IF o \in OpenClients(resp'.sessionId)
                    THEN /\ ws'[o].inbox = Append(ws[o].inbox, published'[1])
                         /\ ws'[o].log = Append(ws[o].log, published'[1].type)
                    ELSE ws'[o] = ws[o]
         ELSE /\ published' = <<>>
              /\ ws' = ws]_vars

\* a batch create succeeded with one client in the session, which was sent
\* the event, and one client of the other session
C1_Witness ==
    /\ resp.op = "batch" /\ resp.status = 200 /\ resp.count >= 1
    /\ \E o, p \in Observers :
          /\ ws[o].readyState = "OPEN" /\ ws[o].sessionId = "s1"
          /\ ws[o].inbox # <<>> /\ ws[o].inbox[Len(ws[o].inbox)] = published[1]
          /\ ws[p].readyState = "OPEN" /\ ws[p].sessionId = "s2"

----------------------------------------------------------------------------
(* C2: after successful create, update, delete and batch-create writes, an  *)
(* observer that applied the preamble and every event it was sent holds     *)
(* exactly the ids of the session's store, each once.                       *)

C2_ObserverHoldsStoreIds ==
    \A o \in Observers :
        UpToDate(o)
        => /\ NoDuplicates(SceneIds(ws[o].scene))
           /\ Range(SceneIds(ws[o].scene)) = RecordIds(Store(ws[o].sessionId))

----------------------------------------------------------------------------
(* C3: once a full-resync has been answered, an observer of the session     *)
(* that has processed its elements_synced event holds exactly the elements  *)
(* of the rebuilt store.                                                    *)

C3_SyncedObserverHoldsStore ==
    \A o \in Observers :
        (/\ resp.op = "sync" /\ resp.status = 200
         /\ ws[o].sessionId = resp.sessionId
         /\ UpToDate(o)
         /\ ws[o].log[Len(ws[o].log)] = "elements_synced")
        => Range(SceneIds(ws[o].scene)) = RecordIds(Store(ws[o].sessionId))

----------------------------------------------------------------------------
(* C4: the first three messages a connection is sent are session_info,      *)
(* initial_elements and sync_status in this order, nothing sent later is    *)
(* one of them, and at the connection initial_elements carries the          *)
(* elements of the store and sync_status their number.                      *)

PreambleTypes == <<"session_info", "initial_elements", "sync_status">>

C4_PreambleFirst ==
    \A o \in Observers :
        ws[o].readyState # "NONE"
        => /\ Len(ws[o].log) >= 3
           /\ SubSeq(ws[o].log, 1, 3) = PreambleTypes
           /\ \A i \in 4..Len(ws[o].log) : ws[o].log[i] \notin Range(PreambleTypes)

C4_PreambleContent ==
    \A o \in Observers :
        (ws[o].readyState \in {"NONE", "CLOSED"} /\ ws'[o].readyState = "OPEN")
        => LET sid == ws'[o].sessionId
               inbox == ws'[o].inbox
           IN  /\ Len(inbox) = 3
               /\ inbox[1].type = "session_info" /\ inbox[1].sessionId = sid
               /\ inbox[2].type = "initial_elements"
               /\ inbox[2].elements = MapValues(Store(sid))
               /\ inbox[3].type = "sync_status"
               /\ inbox[3].count = Len(Store(sid))

C4_Preamble == []C4_PreambleFirst /\ [][C4_PreambleContent]_vars

\* a client connected to a session of three elements and has its preamble
C4_Witness ==
    \E o \in Observers :
        /\ ws[o].readyState = "OPEN"
        /\ Len(ws[o].inbox) = 3
        /\ Len(ws[o].inbox[2].elements) = 3
        /\ ws[o].inbox[3].count = 3

----------------------------------------------------------------------------
(* C5: a successful single create leaves the session with exactly one       *)
(* element more than before, and the created element has version 1.         *)

C5_CreateAddsOne ==
    [][(MutationStep /\ resp'.op = "create" /\ resp'.status = 200)
       => LET sid == resp'.sessionId
              after == sessions'[sid].elements
          IN  /\ Len(after) = Len(sessions[sid].elements) + 1
              /\ MapHas(after, resp'.id)
              /\ MapGet(after, resp'.id).version = 1]_vars

----------------------------------------------------------------------------
(* C6: a successful update stores the element with its previous version     *)
(* plus exactly 1, whichever operation wrote the previous record and        *)
(* whatever the payload carries.                                            *)

C6_UpdateIncrementsVersion ==
    [][(MutationStep /\ resp'.op = "update" /\ resp'.status = 200)
       => LET sid == resp'.sessionId
              before == sessions[sid].elements
              after == sessions'[sid].elements
          IN  /\ MapHas(before, resp'.id)
              /\ MapHas(after, resp'.id)
              /\ MapGet(after, resp'.id).version = MapGet(before, resp'.id).version + 1]_vars

\* an element has been updated twice in a row, the second time with a
\* payload that carries a version of its own
C6_Witness ==
    /\ resp.op = "update" /\ resp.status = 200
    /\ MapHas(Store("s1"), resp.id)
    /\ MapGet(Store("s1"), resp.id).version = 3

----------------------------------------------------------------------------
(* C7: while an element exists, the version stored under its id never       *)
(* decreases from one state to the next.  A full-resync clears the table    *)
(* and so ends the life of every element; the steps of every other          *)
(* operation are covered.                                                   *)

C7_VersionNeverDecreases ==
    [][\A sid \in SessionIds :
          (MutationStep /\ resp'.op = "sync" /\ resp'.sessionId = sid)
          \/ \A id \in Keys(sessions[sid].elements) \cap Keys(sessions'[sid].elements) :
                MapGet(sessions'[sid].elements, id).version
                   >= MapGet(sessions[sid].elements, id).version]_vars

----------------------------------------------------------------------------
(* C8: when a successful create, batch create or full-resync carried an     *)
(* explicit id, the session stores an element under exactly this id.        *)

C8_ExplicitIdIsTheKey ==
    (resp.op \in {"create", "batch", "sync"} /\ resp.status = 200)
    => \A id \in resp.given :
          /\ MapHas(Store(resp.sessionId), id)
          /\ MapGet(Store(resp.sessionId), id).id = id

----------------------------------------------------------------------------
(* C9: no two element records of one session's store carry the same id.     *)

C9_RecordIdsUnique ==
    \A sid \in SessionIds :
        NoDuplicates([i \in 1..Len(Store(sid)) |-> Store(sid)[i].el.id])

----------------------------------------------------------------------------
(* C10: a create or batch create that is rejected (status 400) leaves the   *)
(* session's element store exactly as it was.                               *)

C10_RejectedCreateStoresNothing ==
    [][(MutationStep /\ resp'.op \in {"create", "batch"} /\ resp'.status = 400)
       => sessions'[resp'.sessionId].elements = sessions[resp'.sessionId].elements]_vars

----------------------------------------------------------------------------
(* C11: a delete is answered 200 only for an id the store holds; any other  *)
(* delete (the id, or the session, is absent) is answered 404, leaves the   *)
(* store as it was, publishes nothing and reaches no client.                *)

C11_DeleteAbsentIsNotFound ==
    [][(MutationStep /\ resp'.op = "delete")
       => LET sid == resp'.sessionId
          IN  \/ /\ resp'.status = 200
                 /\ MapHas(sessions[sid].elements, resp'.id)
              \/ /\ resp'.status = 404
                 /\ sessions'[sid].elements = sessions[sid].elements
                 /\ published' = <<>>
                 /\ ws' = ws]_vars

\* a delete was answered 404 while the store holds an element and a client
\* of the session is open
C11_Witness ==
    /\ resp.op = "delete" /\ resp.status = 404
    /\ Len(Store("s1")) >= 1
    /\ OpenClients("s1") # {}

----------------------------------------------------------------------------
(* C12: after a successful full-resync with list L the store holds exactly  *)
(* one record per element of L, in the order of L, each stored under the id *)
(* the element carries or under a newly generated id when it carries none,  *)
(* each with version 1.                                                     *)

\* the ids issued by the step
FreshIds == {generateId(n) : n \in (nextId + 1)..nextId'}

C12_ResyncOneRecordPerElement ==
    [][(MutationStep /\ resp'.op = "sync" /\ resp'.status = 200)
       => LET L == resp'.input
              after == sessions'[resp'.sessionId].elements
          IN  /\ Len(after) = Len(L)
              /\ \A i \in 1..Len(L) :
                    /\ after[i].el.version = 1
                    /\ after[i].el.id = after[i].key
                    /\ IF Truthy(L[i].id) THEN after[i].key = L[i].id
                       ELSE after[i].key \in FreshIds]_vars

(* C12, amended: a full-resync skips the entries of L that are not objects   *)
(* (null) and keeps one record per id: the store after it holds, and holds   *)
(* only, one record for every id carried by an element of L, with the       *)
(* fields of the last element of L that carries the id, and one record      *)
(* under a newly generated id for every element of L without an id; every   *)
(* record has version 1, and the count answered is the number of elements   *)
(* processed.                                                               *)

\* the positions of L that hold an object
Processable(L) == {i \in 1..Len(L) : L[i] # NullElement}

\* the last element of L that carries id
LastWithId(L, id) ==
    L[CHOOSE i \in Processable(L) :
          /\ L[i].id = id
          /\ \A j \in Processable(L) : L[j].id = id => j <= i]

\* the fields of an element that a full-resync takes over
Fields(e) == [type |-> e.type, x |-> e.x, y |-> e.y]

C12_ResyncRebuildsFromList ==
    [][(MutationStep /\ resp'.op = "sync" /\ resp'.status = 200)
       => LET L == resp'.input
              after == sessions'[resp'.sessionId].elements
              named == {L[i].id : i \in {j \in Processable(L) : Truthy(L[j].id)}}
              idless == {i \in Processable(L) : ~Truthy(L[i].id)}
          IN  /\ Keys(after) = named \cup FreshIds
              /\ Len(after) = Cardinality(named) + Cardinality(idless)
              /\ Cardinality(FreshIds) = Cardinality(idless)
              /\ \A k \in 1..Len(after) :
                    after[k].el.id = after[k].key /\ after[k].el.version = 1
              /\ \A id \in named :
                    Fields(MapGet(after, id)) = Fields(LastWithId(L, id))
              /\ \A id \in FreshIds :
                    \E i \in idless : Fields(MapGet(after, id)) = Fields(L[i])
              /\ resp'.count = Cardinality(Processable(L))]_vars

\* a full-resync with an element that carries version 5 and one without an
\* id replaced a store that held an element of a generated id
C12_Witness ==
    /\ resp.op = "sync" /\ resp.status = 200
    /\ \E i \in 1..Len(resp.input) : resp.input[i].version = 5
    /\ Keys(Store("s1")) = {"a", generateId(2)}

----------------------------------------------------------------------------
(* C13: a full-resync that follows a full-resync of the same session with   *)
(* the same list answers the same count and leaves the store as the first   *)
(* left it: the same elements with the same field values, version 1.        *)

\* the step is a successful full-resync that repeats the request before it
RepeatedSync ==
    /\ MutationStep /\ resp'.op = "sync" /\ resp'.status = 200
    /\ resp.op = "sync" /\ resp.status = 200
    /\ resp.sessionId = resp'.sessionId
    /\ resp.input = resp'.input

C13_ResyncIdempotent ==
    [][RepeatedSync
       => /\ resp'.count = resp.count
          /\ sessions'[resp'.sessionId].elements = sessions[resp'.sessionId].elements]_vars

(* C13, amended: the repeated full-resync answers the same count and leaves  *)
(* as many records, in the same order, with the same type and geometry and  *)
(* version 1; a record of an element that carries an id keeps its id, a     *)
(* record of an element without an id gets a new generated id each time.    *)

C13_ResyncIdempotentUpToGeneratedIds ==
    [][RepeatedSync
       => LET before == sessions[resp'.sessionId].elements
              after == sessions'[resp'.sessionId].elements
          IN  /\ resp'.count = resp.count
              /\ Len(after) = Len(before)
              /\ \A k \in 1..Len(after) :
                    /\ Fields(after[k].el) = Fields(before[k].el)
                    /\ after[k].el.version = 1 /\ before[k].el.version = 1
                    /\ after[k].el.id = after[k].key
                    /\ IF before[k].key \in resp'.given
                       THEN after[k].key = before[k].key
                       ELSE after[k].key \in FreshIds /\ before[k].key \in IssuedIds]_vars

\* the second of two requests was a full-resync of two elements without id,
\* as the first was: it stored them under the third and fourth id issued
C13_Witness ==
    /\ ops = 2 /\ nextId = 4
    /\ resp.op = "sync" /\ resp.status = 200 /\ resp.count = 2
    /\ Len(resp.input) = 2
    /\ Keys(Store("s1")) = {generateId(3), generateId(4)}

----------------------------------------------------------------------------
(* C14: a successful batch create of n items publishes one event, of type   *)
(* elements_batch_created; its element list is the n records the request    *)
(* added to the store, one per item and in the order of the items, and the  *)
(* response carries the same list.                                          *)

C14_BatchEventCarriesStoredRecords ==
    [][(MutationStep /\ resp'.op = "batch" /\ resp'.status = 200)
       => LET items == resp'.input
              n == Len(items)
              before == sessions[resp'.sessionId].elements
              after == sessions'[resp'.sessionId].elements
          IN  /\ Len(published') = 1
              /\ published'[1].type = "elements_batch_created"
              /\ Len(published'[1].elements) = n
              /\ resp'.elements = published'[1].elements
              /\ resp'.count = n
              /\ Len(after) = Len(before) + n
              /\ SubSeq(after, 1, Len(before)) = before
              /\ \A i \in 1..n :
                    LET record == published'[1].elements[i]
                    IN  /\ after[Len(before) + i].el = record
                        /\ Fields(record) = Fields(items[i])
                        /\ items[i].id # NoId => record.id = items[i].id
                        /\ record.version = 1]_vars

\* a batch of an item with an id and an item without one was stored behind
\* an element the store held
C14_Witness ==
    /\ resp.op = "batch" /\ resp.status = 200 /\ resp.count = 2
    /\ resp.input[1].id = "a" /\ resp.input[2].id = NoId
    /\ Len(Store("s1")) = 3
    /\ published[1].elements = <<Store("s1")[2].el, Store("s1")[3].el>>

----------------------------------------------------------------------------
(* C15: read-your-writes.  A successful create or update leaves under the   *)
(* element's id exactly the record it answers and every other record as it  *)
(* was; a read answers the records of the store, in order, with their       *)
(* number, and changes none.  So a read after creates and updates shows     *)
(* each element as its latest write answered it.                            *)

C15_WriteStoresWhatItAnswers ==
    (MutationStep /\ resp'.op \in {"create", "update"} /\ resp'.status = 200)
    => LET before == sessions[resp'.sessionId].elements
           after == sessions'[resp'.sessionId].elements
       IN  /\ Len(resp'.elements) = 1
           /\ MapHas(after, resp'.id)
           /\ MapGet(after, resp'.id) = resp'.elements[1]
           /\ Keys(after) = Keys(before) \cup {resp'.id}
           /\ \A id \in Keys(before) \ {resp'.id} : MapGet(after, id) = MapGet(before, id)

C15_ReadAnswersTheStore ==
    (ops' = ops + 1 /\ resp'.op = "get" /\ resp'.status = 200)
    => /\ resp'.elements = MapValues(sessions[resp'.sessionId].elements)
       /\ resp'.count = Len(sessions[resp'.sessionId].elements)
       /\ sessions'[resp'.sessionId].elements = sessions[resp'.sessionId].elements

C15_ReadYourWrites ==
    [][C15_WriteStoresWhatItAnswers /\ C15_ReadAnswersTheStore]_vars

\* an element was created, then moved, then read: the read answers one
\* element, moved, with version 2
C15_Witness ==
    /\ resp.op = "get" /\ resp.status = 200 /\ resp.count = 1
    /\ resp.elements[1].x = 2
    /\ resp.elements[1].version = 2

----------------------------------------------------------------------------
(* C16: a publish for session S sends the event to every client in the set  *)
(* of S whose socket is OPEN, sends nothing to a client in the set whose    *)
(* socket is not OPEN, and the request that publishes is answered 200       *)
(* whatever the state of the sockets.                                       *)

\* the clients attached to session sid: the members of its set
Attached(sid) == IF sid \in DOMAIN sessionClients THEN sessionClients[sid] ELSE {}

C16_PublishSkipsNotOpen ==
    [][(MutationStep /\ published' # <<>>)
       => LET event == published'[1]
          IN  /\ resp'.status = 200
              /\ \A o \in Attached(event.sessionId) :
                    IF ws[o].readyState = "OPEN"
                    THEN /\ ws'[o].inbox = Append(ws[o].inbox, event)
                         /\ ws'[o].readyState = "OPEN"
                    ELSE ws'[o] = ws[o]]_vars

\* a write was published while the set of its session held an open client,
\* which was sent the event, and a closing client, which was sent nothing
C16_Witness ==
    /\ published # <<>> /\ resp.status = 200
    /\ \E o, p \in Attached("s1") :
          /\ ws[o].readyState = "OPEN"
          /\ Len(ws[o].log) = 4
          /\ ws[o].inbox[Len(ws[o].inbox)] = published[1]
          /\ ws[p].readyState = "CLOSING"
          /\ Len(ws[p].log) = 3

----------------------------------------------------------------------------
(* C17: a write to session A (create, update, delete, batch create,         *)
(* full-resync, export), accepted or not, leaves every other session B as   *)
(* it was, elements and metadata, and sends nothing to a client of B.       *)

\* the step is a write request of the REST surface, or the end of an export
WriteStep ==
    \/ MutationStep
    \/ resp'.op = "export" /\ (ops' = ops + 1 \/ exports' # exports)

C17_SessionsAreIsolated ==
    [][WriteStep
       => /\ \A B \in SessionIds \ {resp'.sessionId} : sessions'[B] = sessions[B]
          /\ \A o \in Observers :
                ws[o].sessionId # resp'.sessionId => ws'[o] = ws[o]
          /\ \A B \in DOMAIN sessionClients \ {resp'.sessionId} :
                B \in DOMAIN sessionClients' /\ sessionClients'[B] = sessionClients[B]]_vars

\* a write to s1 was published while s2 holds an element and has an open client
C17_Witness ==
    /\ resp.sessionId = "s1" /\ resp.status = 200 /\ published # <<>>
    /\ Len(Store("s2")) >= 1
    /\ OpenClients("s2") # {}

----------------------------------------------------------------------------
(* C18: no session id is mapped to an empty set of clients; and when the    *)
(* last client of a session leaves, the set of the session is unmapped      *)
(* while the registry keeps the session and its elements as they were.      *)

C18_NoEmptySet == \A sid \in DOMAIN sessionClients : sessionClients[sid] # {}

C18_LastDetachUnmaps ==
    \A sid \in DOMAIN sessionClients :
        (sessionClients[sid] # {}
         /\ (sid \notin DOMAIN sessionClients' \/ sessionClients'[sid] = {}))
        => /\ sid \notin DOMAIN sessionClients'
           /\ sessions' = sessions
           /\ sessions[sid].exists

C18_MembershipSetRemoved == []C18_NoEmptySet /\ [][C18_LastDetachUnmaps]_vars

----------------------------------------------------------------------------
(* C19: once the sweep has evicted a session, the clients that were         *)
(* attached to it are sent no event by any later write.                     *)

\* the session observer o attached to is still the session of its id
SessionLives(o) ==
    /\ sessions[ws[o].sessionId].exists
    /\ sessions[ws[o].sessionId].createdAt = ws[o].session

C19_EvictedObserversGetNothing ==
    [][MutationStep
       => \A o \in Observers :
             (ws[o].readyState = "OPEN" /\ ~SessionLives(o)) => ws'[o].inbox = ws[o].inbox]_vars

----------------------------------------------------------------------------
(* C20: a sweep removes every session whose lastActivity lies more than     *)
(* the expiry time before the clock, leaves every other session as it is,   *)
(* and returns the number of sessions it removed.                           *)

C20_SweepRemovesExactlyTheStale ==
    [][(ops' = ops + 1 /\ resp'.op = "sweep")
       => /\ \A sid \in SessionIds :
                IF sessions[sid].exists /\ now - sessions[sid].lastActivity > SESSION_EXPIRY_MS
                THEN ~sessions'[sid].exists
                ELSE sessions'[sid] = sessions[sid]
          /\ resp'.count =
                Cardinality({sid \in SessionIds : sessions[sid].exists /\ ~sessions'[sid].exists})]_vars

\* a sweep has removed the session s1 and kept s2, whose age had just
\* reached the expiry time
C20_Witness ==
    /\ resp.op = "sweep" /\ resp.count = 1
    /\ ~sessions["s1"].exists
    /\ sessions["s2"].exists
    /\ now - sessions["s2"].lastActivity = SESSION_EXPIRY_MS

----------------------------------------------------------------------------
(* C21: createSession(id) and getOrCreateSession(id) of an id that names a  *)
(* live session return that session and reset nothing: its elements,        *)
(* createdAt, title, isFinalized and imageUrl stay as they are, no other     *)
(* entry of the registry changes, and none is added.                        *)

\* the fields of a session that a lookup leaves alone
Kept(session) ==
    [elements |-> session.elements, createdAt |-> session.createdAt, title |-> session.title,
     isFinalized |-> session.isFinalized, imageUrl |-> session.imageUrl]

\* the ids the registry maps
Registered(registry) == {sid \in SessionIds : registry[sid].exists}

C21_LookupReturnsLiveSession ==
    \A sid \in SessionIds :
        sessions[sid].exists
        => /\ createSession(sid) = sessions[sid]
           /\ Kept(getOrCreateSession(sid)[sid]) = Kept(sessions[sid])
           /\ Registered(getOrCreateSession(sid)) = Registered(sessions)
           /\ \A other \in SessionIds \ {sid} :
                 getOrCreateSession(sid)[other] = sessions[other]

\* a connection, which looks its session up with getOrCreateSession and
\* writes nothing, leaves a live session as it was
C21_ConnectionKeepsSession ==
    (ops' = ops + 1 /\ resp'.op = "connection" /\ sessions[resp'.sessionId].exists)
    => /\ Kept(sessions'[resp'.sessionId]) = Kept(sessions[resp'.sessionId])
       /\ Registered(sessions') = Registered(sessions)

C21_ExistingSessionNotReset ==
    []C21_LookupReturnsLiveSession /\ [][C21_ConnectionKeepsSession]_vars

\* a client connected to a session that holds an element, has a title and
\* has been finalized
C21_Witness ==
    /\ resp.op = "connection"
    /\ LET session == sessions[resp.sessionId]
       IN  /\ Len(session.elements) >= 1
           /\ session.title = "t"
           /\ session.isFinalized
           /\ session.imageUrl # NoUrl

----------------------------------------------------------------------------
(* C22: once isFinalized of a session is true it stays true under every     *)
(* operation on that session, for as long as the registry holds the session. *)

C22_StaysFinalized ==
    \A sid \in SessionIds :
        (sessions[sid].isFinalized /\ sessions'[sid].exists) => sessions'[sid].isFinalized

C22_FinalizedIsMonotonic == [][C22_StaysFinalized]_vars

\* a session that an export finalized has since had its elements replaced
\* by a full resync
C22_Witness ==
    /\ resp.op = "sync" /\ resp.status = 200
    /\ sessions[resp.sessionId].isFinalized
    /\ sessions[resp.sessionId].imageUrl = ImageUrl(resp.sessionId, 2)

----------------------------------------------------------------------------
(* C23: the imageUrl of a session is set once: after the session has been   *)
(* finalized, no later export changes its imageUrl.                          *)

C23_ImageUrlKept ==
    \A sid \in SessionIds :
        (sessions[sid].isFinalized /\ sessions'[sid].exists)
        => sessions'[sid].imageUrl = sessions[sid].imageUrl

C23_ImageUrlSetOnce == [][C23_ImageUrlKept]_vars

----------------------------------------------------------------------------
(* C24: an export that fails leaves no side effect on its session: its      *)
(* isFinalized, imageUrl, title and element store are those from before the *)
(* request.  On the REST surface a title is set by an export only, so a      *)
(* session all of whose exports have failed has the title it was created     *)
(* with, which is none.                                                      *)

\* every export of the session sid so far has failed
OnlyFailedExports(sid) ==
    sessions[sid].exists /\ ~sessions[sid].isFinalized /\ sid \notin exports

C24_TitleAsBeforeFailedExports ==
    \A sid \in SessionIds : OnlyFailedExports(sid) => sessions[sid].title = NoTitle

\* the steps of an export that fails: the request up to its await and the
\* failure of exportSessionToImage
C24_ExportStepsKeepSession ==
    \A sid \in SessionIds :
        (resp'.op = "export" /\ resp'.sessionId = sid /\ resp'.status \in {0, 500}
            /\ resp' # resp)
        => /\ sessions'[sid].isFinalized = sessions[sid].isFinalized
           /\ sessions'[sid].imageUrl = sessions[sid].imageUrl
           /\ sessions'[sid].elements = sessions[sid].elements

C24_FailedExportLeavesNoTrace ==
    []C24_TitleAsBeforeFailedExports /\ [][C24_ExportStepsKeepSession]_vars

----------------------------------------------------------------------------
(* C25: when exportSessionToImage reports a failure, finish_diagram answers *)
(* its caller with an isError result, never with the text of a completed     *)
(* diagram.                                                                  *)

C25_FailedExportIsError ==
    toolResult.exported = "failure" => toolResult.content = "isError"

----------------------------------------------------------------------------
(* C26: every tool invocation, whatever the tool name and the arguments,    *)
(* ends with a returned result, a text or an isError result; an error of    *)
(* the validation, of the session lookup, of the request to the REST         *)
(* surface or of an unknown tool name is returned as an isError result and   *)
(* never leaves the handler as an exception.                                 *)

C26_EveryInvocationReturns ==
    toolResult.tool # "none"
    => /\ toolResult.content \in {"text", "isError"}
       /\ ~toolResult.valid => toolResult.content = "isError"
       /\ toolResult.tool = "unknown" => toolResult.content = "isError"

\* a create_element with valid arguments whose request was rejected has
\* been answered with an isError result
C26_Witness ==
    /\ toolResult.tool = "create_element"
    /\ toolResult.valid
    /\ toolResult.content = "isError"

----------------------------------------------------------------------------
(* C27: create_element, batch_create_elements and delete_element return     *)
(* their confirmation only if the write was applied to the store of the      *)
(* session; a write that the REST surface rejects is answered isError.       *)

\* the tools that write to the element store
WriteTools == {"create_element", "batch_create_elements", "delete_element"}

\* the invocation of a write tool by caller c ends in this step
WriteAnswered(c) ==
    calls[c].pending.tool \in WriteTools /\ calls'[c].pending = NoCall

C27_ConfirmationMeansApplied ==
    \A c \in Callers :
        WriteAnswered(c)
        => /\ toolResult'.content = "text" => resp'.status = 200
           /\ resp'.status \in {400, 404, 500} => toolResult'.content = "isError"

C27_SuccessOnlyIfApplied == [][C27_ConfirmationMeansApplied]_vars

----------------------------------------------------------------------------
(* C28: with two callers that have each started a diagram session of their  *)
(* own, every element a caller creates or deletes is written to the session *)
(* that caller started, however the invocations of the two interleave.       *)

\* every caller has started a session of its own
EachStartedOwn ==
    /\ \A c \in Callers : calls[c].own # NoId
    /\ \A c, d \in Callers : c # d => calls[c].own # calls[d].own

C28_WriteGoesToOwnSession ==
    \A c \in Callers :
        (EachStartedOwn /\ WriteAnswered(c))
        => calls[c].pending.sessionId = calls[c].own

C28_CallersKeepApart == [][C28_WriteGoesToOwnSession]_vars

----------------------------------------------------------------------------
(* C29: an invocation of create_element, batch_create_elements,             *)
(* delete_element or finish_diagram that finds no session bound creates a    *)
(* session and binds it instead of failing.                                  *)

\* the tools that work on the session that is current
SessionTools == WriteTools \cup {"finish_diagram"}

\* this step is the invocation, with arguments its schema accepts, of a tool
\* that works on a session: it reaches its await or ends with its result
SessionToolInvoked ==
    /\ invocations' = invocations + 1
    /\ \/ \E c \in Callers :
              calls[c].pending = NoCall /\ calls'[c].pending.tool \in SessionTools
       \/ calls' = calls /\ toolResult'.tool \in SessionTools /\ toolResult'.valid

C29_BindsWhenUnbound ==
    (SessionToolInvoked /\ currentSessionId = NoId)
    => /\ currentSessionId' # NoId
       /\ sessions'[currentSessionId'].exists
       /\ \E c \in Callers : calls'[c].pending.sessionId = currentSessionId'

C29_ImplicitGetOrCreate == [][C29_BindsWhenUnbound]_vars

----------------------------------------------------------------------------
(* C30: the binding repair returns the same elements, in the same order,    *)
(* where the boundElements of each element have lost exactly the entries     *)
(* whose id names no element of the set or whose type is not an allowed      *)
(* binding kind, and a containerId that is set and names no element of the   *)
(* set has become null; the other fields, the entries that resolve and the   *)
(* containerId that resolves are kept.                                       *)

\* the entries of a boundElements value; a value that is no array has none
EntriesOf(boundElements) ==
    IF boundElements.kind = "array" THEN boundElements.entries ELSE <<>>

\* the ids of the elements of a set
IdsOf(elements) == {elements[i].id : i \in 1..Len(elements)}

\* the binding names an element of the cleaned set with an allowed kind
Resolves(binding) ==
    /\ binding.object
    /\ binding.id \in IdsOf(cleanedElements)
    /\ binding.type \in ALLOWED_BINDING_TYPES

C30_RepairedElement(in, out) ==
    /\ out.id = in.id
    /\ out.type = in.type
    /\ EntriesOf(out.boundElements) = SelectSeq(EntriesOf(in.boundElements), Resolves)
    /\ in.boundElements.kind \in {"undefined", "null"} => out.boundElements = in.boundElements
    /\ out.containerId =
           IF IsSet(in.containerId) /\ in.containerId \notin IdsOf(cleanedElements)
           THEN Null
           ELSE in.containerId

C30_BindingRepair ==
    validatedElements # <<>>
    => /\ Len(validatedElements) = Len(cleanedElements)
       /\ \A i \in 1..Len(cleanedElements) :
             C30_RepairedElement(cleanedElements[i], validatedElements[i])

\* an element has lost an entry that names no element and an entry of a kind
\* that is not allowed, has kept two entries that resolve, and has lost its
\* containerId, which named no element
C30_Witness ==
    \E i \in 1..Len(validatedElements) :
        /\ Len(EntriesOf(cleanedElements[i].boundElements)) = 4
        /\ EntriesOf(validatedElements[i].boundElements)
               = <<Binding("b", "text"), Binding("a", "arrow")>>
        /\ cleanedElements[i].containerId = "z"
        /\ validatedElements[i].containerId = Null

----------------------------------------------------------------------------
(* C31: no set of elements is handed to the scene with a dangling binding:  *)
(* on every path that installs elements, each entry of boundElements and     *)
(* each containerId that is set names an element of the installed set.       *)

\* the references of an element all name elements of the set
BindingsResolveIn(element, elements) ==
    /\ \A k \in 1..Len(EntriesOf(element.boundElements)) :
          /\ EntriesOf(element.boundElements)[k].object
          /\ EntriesOf(element.boundElements)[k].id \in IdsOf(elements)
    /\ IsSet(element.containerId) => element.containerId \in IdsOf(elements)

C31_NoDanglingBinding ==
    \A i \in 1..Len(convertedElements.elements) :
        BindingsResolveIn(convertedElements.elements[i], convertedElements.elements)

----------------------------------------------------------------------------
(* C32: a full-resync is atomic: its step takes the store from the one      *)
(* before it to the whole rebuilt one, and the snapshot that a connection    *)
(* sends is the whole store of the state it is taken in, so no read sees a   *)
(* cleared or partly rebuilt store.                                          *)

\* the step of a full-resync leaves the whole rebuilt store: a record for
\* every id the list names and for every element without an id, no other
C32_ResyncStepIsWhole ==
    (MutationStep /\ resp'.op = "sync" /\ resp'.status = 200)
    => LET L == resp'.input
           after == sessions'[resp'.sessionId].elements
           named == {L[i].id : i \in {j \in Processable(L) : Truthy(L[j].id)}}
           idless == {i \in Processable(L) : ~Truthy(L[i].id)}
       IN  /\ Keys(after) = named \cup FreshIds
           /\ Len(after) = Cardinality(named) + Cardinality(idless)

\* the snapshot of a connection is the store of the session before the
\* step, which the step leaves as it is
C32_SnapshotIsWhole ==
    (ops' = ops + 1 /\ resp'.op = "connection")
    => \A o \in Observers :
          ws'[o] # ws[o]
          => /\ ws'[o].inbox[2].type = "initial_elements"
             /\ ws'[o].inbox[2].elements = MapValues(sessions[resp'.sessionId].elements)
             /\ ws'[o].inbox[3].count = Len(sessions[resp'.sessionId].elements)
             /\ sessions'[resp'.sessionId].elements = sessions[resp'.sessionId].elements

C32_ResyncIsAtomic == [][C32_ResyncStepIsWhole /\ C32_SnapshotIsWhole]_vars

\* an observer has connected to a session after a full-resync replaced its
\* store: its snapshot holds the element of the resync, with version 1
C32_Witness ==
    /\ resp.op = "connection"
    /\ \E o \in Observers :
          /\ ws[o].readyState = "OPEN"
          /\ Len(ws[o].inbox) = 3
          /\ Len(ws[o].inbox[2].elements) = 1
          /\ ws[o].inbox[2].elements[1].x = 2
          /\ ws[o].inbox[2].elements[1].version = 1

----------------------------------------------------------------------------
(* C33: a finish_diagram records the exported image against the session     *)
(* whose canvas it exported, and no other, and reports the link of that      *)
(* session, also when another invocation runs while the export is awaited.   *)

C33_FinishRecordsExportedSession ==
    \A c \in Callers :
        (/\ calls[c].pending.tool = "finish_diagram"
         /\ calls'[c].pending = NoCall
         /\ toolResult'.exported = "success")
        => LET exported == calls[c].pending.sessionId
           IN  /\ sessions'[exported].isFinalized
               /\ sessions'[exported].imageUrl = ImageUrl(exported, Timestamp)
               /\ \A other \in SessionIds \ {exported} : sessions'[other] = sessions[other]
               /\ toolResult'.link = exported

C33_FinishKeepsItsSession == [][C33_FinishRecordsExportedSession]_vars

----------------------------------------------------------------------------
(* C34: in every state and for every session, each element record is        *)
(* stored under the key that equals the id field of the record.              *)

C34_KeyIsRecordId ==
    \A sid \in SessionIds :
        \A i \in 1..Len(Store(sid)) : Store(sid)[i].key = Store(sid)[i].el.id

----------------------------------------------------------------------------
(* C35: after a full-resync the count that the elements_synced event        *)
(* carries and that the response answers is the number of elements the       *)
(* store of the session holds.                                               *)

C35_CountIsStoreSize ==
    (MutationStep /\ resp'.op = "sync" /\ resp'.status = 200)
    => /\ resp'.count = Len(sessions'[resp'.sessionId].elements)
       /\ Len(published') = 1
       /\ published'[1].type = "elements_synced"
       /\ published'[1].count = Len(sessions'[resp'.sessionId].elements)

C35_SyncedCountIsStoreSize == [][C35_CountIsStoreSize]_vars

----------------------------------------------------------------------------
(* C36: an observer that stays attached to a session with an open socket    *)
(* receives the events of the successive mutations of the session in the     *)
(* order in which the mutations were applied, each event once.               *)

\* the types of a sequence of messages
TypesOf(messages) == [i \in 1..Len(messages) |-> messages[i].type]

\* the socket of o is open before and after the step
StaysOpen(o) == ws[o].readyState = "OPEN" /\ ws'[o].readyState = "OPEN"

\* a step sends o the event of its mutation after everything sent before,
\* once; any other step sends o nothing, and o takes its messages off the
\* socket from the front
C36_EventAppendedOnce ==
    \A o \in Observers :
        StaysOpen(o)
        => IF /\ MutationStep
              /\ published' # <<>>
              /\ o \in Attached(published'[1].sessionId)
           THEN /\ ws'[o].inbox = ws[o].inbox \o published'
                /\ ws'[o].log = ws[o].log \o TypesOf(published')
                /\ Len(published') = 1
           ELSE /\ ws'[o].log = ws[o].log
                /\ \/ ws'[o].inbox = ws[o].inbox
                   \/ ws[o].inbox # <<>> /\ ws'[o].inbox = Tail(ws[o].inbox)

C36_EventsInMutationOrder == [][C36_EventAppendedOnce]_vars

\* an observer was sent, after its preamble, the event of a create and then
\* the event of the update that followed it
C36_Witness ==
    \E o \in Observers :
        /\ ws[o].readyState = "OPEN"
        /\ ws[o].log = <<"session_info", "initial_elements", "sync_status",
                         "element_created", "element_updated">>

----------------------------------------------------------------------------
(* C37: a request that is answered with an error (a validation failure, an  *)
(* unknown session or an unknown element) leaves the set of sessions of the  *)
(* registry as it was: a rejected request creates no session.                *)

C37_RejectedKeepsRegistry ==
    (ops' = ops + 1 /\ resp'.status \in {400, 404})
    => Registered(sessions') = Registered(sessions)

C37_RejectedCreatesNoSession == [][C37_RejectedKeepsRegistry]_vars

----------------------------------------------------------------------------
(* C38: a successful update changes only the fields that its payload names, *)
(* and the version: the id of the element and every field the payload does   *)
(* not name keep their values, and no other element of the session changes.  *)

C38_UpdateChangesNamedFields ==
    (MutationStep /\ resp'.op = "update" /\ resp'.status = 200)
    => LET before == Store(resp'.sessionId)
           after == sessions'[resp'.sessionId].elements
           body == resp'.input[1]
           existing == MapGet(before, resp'.id)
           updated == MapGet(after, resp'.id)
       IN  /\ updated.id = existing.id
           /\ updated.type = IF body.type # NoType THEN body.type ELSE existing.type
           /\ updated.x = IF body.x # Absent THEN body.x ELSE existing.x
           /\ updated.y = IF body.y # Absent THEN body.y ELSE existing.y
           /\ updated.version = existing.version + 1
           /\ Len(after) = Len(before)
           /\ \A i \in 1..Len(before) :
                 /\ after[i].key = before[i].key
                 /\ before[i].key # resp'.id => after[i] = before[i]

C38_UpdateFrame == [][C38_UpdateChangesNamedFields]_vars

----------------------------------------------------------------------------
(* C39: with several legacy SSE connections open, a message posted to the   *)
(* legacy message endpoint is handled by the transport of the connection     *)
(* that sent it, and its response goes back on that connection.              *)

C39_HandledBySendersTransport ==
    (sseDelivery.open /\ sseDelivery.status = 202)
    => sseDelivery.transport = sseDelivery.sender

====
